---- MODULE Spec2Model ----
(***************************************************************************)
(* A model of simple_python_app: the staged bootstrap of                   *)
(* GenericApplication.start() (argument parsing, logging activation,       *)
(* application-config resolution, the three lists of custom init hooks,    *)
(* the run entry point and the exit paths) and the configuration path      *)
(* resolution it uses.                                                     *)
(*                                                                         *)
(* Python values are modelled as follows.  None (and every falsy optional) *)
(* is the empty tuple <<>>; an optional integer n is <<n>>.  A path is a   *)
(* pair <<directory, filename>>, so that "search_path / filename" is the   *)
(* pair of its operands.  An exception is a record [type, code]; code is   *)
(* the SystemExit code and None otherwise.                                 *)
(***************************************************************************)
EXTENDS Integers, Sequences, FiniteSets, TLC

None == <<>>

\* Bounds of the model.
MaxHooks == 1           \* add_custom_init_stage_* calls in a behaviour of Spec
MaxStageHooks == 3      \* add_custom_init_stage_* calls in one of SpecStages
MaxArgs == 2            \* length of argv
MaxDirs == 2            \* search directories in SpecResolve
MaxNames == 2           \* search filenames in SpecResolve
MaxLines == 2           \* input lines read by the interactive loops
MaxLineTokens == 2      \* tokens of one input line, and of argv, in SpecShell
MaxRegistrations == 2   \* add_subcommand calls in a behaviour of SpecTree

VARIABLES
    pc,                 \* position inside start()
    config,             \* GenericApplication.Config plus the capability flags
    args,               \* self._args: None or the parsed namespace
    raised,             \* what the try block of __init_argparse raised
    methods,            \* self._custom_init_stage_{one,two,three}_methods
    idx,                \* position of the running "for ... in methods" loop
    ran,                \* the hooks invoked so far, per stage, in order
    late,               \* hooks registered after their stage's loop had ended
    logging_config,     \* logging_config_type, _filepath, _filepath_source
    application_config, \* application_config, _filepath, _filepath_source
    ret,                \* what run did: not called, returned a value, raised exc
    events,             \* what the run did so far, in order
    status,             \* None, or <<the value start() returned>>
    budget,             \* how many add_custom_init_stage_* calls are modelled
    resolver,           \* the resolver's inputs and results (SpecResolve)
    shell,              \* the interactive loops of _handle_root_command
    tree,               \* the Command objects of root_command and the last call
    document            \* the logging document: as loaded, as given to dictConfig

vars == <<pc, config, args, raised, methods, idx, ran, late, logging_config,
          application_config, ret, events, status, budget, resolver,
                   shell, tree,
                   document>>

-----------------------------------------------------------------------------
(* Exceptions and the exit paths                                           *)

Exc(t) == [type |-> t, code |-> None]

SysExit(c) == [type |-> "SystemExit", code |-> c]

\* What application code (a hook, add_arguments, run) may raise.
UserRaises ==
    {Exc("Exception"), Exc("KeyboardInterrupt"),
     SysExit(None), SysExit(<<0>>), SysExit(<<3>>)}

\* A start() without the except clause for KeyboardInterrupt.
StartCatchNoInterrupt(exc) ==
    IF exc.type = "SystemExit" /\ exc.code # None THEN exc.code[1] ELSE -1

\* start(): the three except clauses and the final "return -1".
StartCatch(exc) ==
    IF exc.type = "KeyboardInterrupt" THEN 0
    ELSE IF exc.type = "SystemExit" /\ exc.code # None THEN exc.code[1]
    ELSE -1

\* start(): what the except clause that catches exc logs.
StartCatchEvents(exc) ==
    IF exc.type \in {"KeyboardInterrupt", "SystemExit"} THEN <<>> ELSE <<"error">>

\* __exit(error): the error line, then sys.exit(-1) or sys.exit(0).
Exit(error) ==
    IF error THEN [events |-> <<"error">>, exc |-> SysExit(<<-1>>)]
    ELSE [events |-> <<>>, exc |-> SysExit(<<0>>)]

-----------------------------------------------------------------------------
(* Paths and files                                                         *)

CliApplicationConfig == <<"cli", "app.json">>
CliLoggingConfig == <<"cli", "logging.yaml">>
CtorApplicationConfig == <<"ctor", "app.json">>
CtorLoggingConfig == <<"ctor", "logging.yaml">>
CtorDefaultLoggingConfig == <<"ctor", "default_logging.yaml">>
BuiltinDefaultLoggingConfig == <<"FILE_DIR", "resources/default_logging_config.yaml">>

\* find_file: directories in the outer loop, filenames in the inner loop, the
\* first existing combination; None when there is none.
RECURSIVE FindInDirectory(_, _, _, _)
FindInDirectory(search_path, filenames, j, files) ==
    IF j > Len(filenames) THEN None
    ELSE IF <<search_path, filenames[j]>> \in files
         THEN <<search_path, filenames[j]>>
         ELSE FindInDirectory(search_path, filenames, j + 1, files)

RECURSIVE FindFileFrom(_, _, _, _)
FindFileFrom(search_paths, filenames, i, files) ==
    IF i > Len(search_paths) THEN None
    ELSE LET hit == FindInDirectory(search_paths[i], filenames, 1, files)
         IN IF hit # None THEN hit
            ELSE FindFileFrom(search_paths, filenames, i + 1, files)

\* A find_file with the loops exchanged: filenames outer, directories inner.
FindFileFilenamesOuter(search_paths, filenames, files) ==
    LET hits == {ij \in (1..Len(search_paths)) \X (1..Len(filenames)) :
                    <<search_paths[ij[1]], filenames[ij[2]]>> \in files}
    IN IF hits = {} THEN None
       ELSE LET first == CHOOSE ij \in hits : \A kl \in hits :
                             \/ ij[2] < kl[2]
                             \/ ij[2] = kl[2] /\ ij[1] <= kl[1]
            IN <<search_paths[first[1]], filenames[first[2]]>>

\* A find_file that returns the first combination without looking for it.
FindFileUnchecked(search_paths, filenames, files) ==
    <<search_paths[1], filenames[1]>>

FindFile(search_paths, filenames, files) ==
    FindFileFrom(search_paths, filenames, 1, files)

\* A resolver that looks at the constructor's path before the CLI's.
FindApplicationConfigFilepathCtorFirst(a, c, files) ==
    IF c.application_config_filepath # None
    THEN [path |-> c.application_config_filepath, source |-> "EXPLICIT"]
    ELSE IF a.config # None
    THEN [path |-> a.config, source |-> "CLI_ARG"]
    ELSE [path |-> FindFile(c.application_config_search_paths,
                            c.application_config_search_filenames, files),
          source |-> "SEARCH"]

\* __init_application_config.find_application_config_filepath
FindApplicationConfigFilepath(a, c, files) ==
    IF a.config # None
    THEN [path |-> a.config, source |-> "CLI_ARG"]
    ELSE IF c.application_config_filepath # None
    THEN [path |-> c.application_config_filepath, source |-> "EXPLICIT"]
    ELSE [path |-> FindFile(c.application_config_search_paths,
                            c.application_config_search_filenames, files),
          source |-> "SEARCH"]

\* __init_custom_logging.find_logging_config_filepath
FindLoggingConfigFilepath(a, c, files) ==
    IF a.logging_config # None
    THEN [path |-> a.logging_config, source |-> "CLI_ARG"]
    ELSE IF c.logging_config_filepath # None
    THEN [path |-> c.logging_config_filepath, source |-> "EXPLICIT"]
    ELSE [path |-> FindFile(c.logging_config_search_paths,
                            c.logging_config_search_filenames, files),
          source |-> "SEARCH"]

\* All search_path / filename combinations of two lists.
Combinations(search_paths, filenames) ==
    {<<search_paths[i], filenames[j]>> :
        i \in 1..Len(search_paths), j \in 1..Len(filenames)}

-----------------------------------------------------------------------------
(* Argument parsing                                                        *)

\* One token of argv.  "--config" and "--logging-config" stand for the option
\* with its value; "--malformed" is an argument the parser rejects where it
\* stands (an option without its value); "--unknown" is an argument no
\* add_argument call declared, which parse_known_args sets aside.
Tokens ==
    {"--help", "--version", "--verbose", "--quiet", "--config",
     "--logging-config", "--malformed", "--unknown"}

Argvs == UNION {[1..n -> Tokens] : n \in 0..MaxArgs}

\* The defaults of the arguments __init_argparse declares.
DefaultNamespace ==
    [verbose |-> FALSE, quiet |-> FALSE, config |-> None, logging_config |-> None]

\* parse_known_args: the arguments are consumed from left to right and each
\* action runs where its option stands, so the first help or version option
\* raises its request and the first malformed argument raises ArgumentError.
RECURSIVE ParseFrom(_, _, _)
ParseFrom(argv, i, ns) ==
    IF i > Len(argv) THEN [kind |-> "ok", ns |-> ns]
    ELSE CASE argv[i] = "--help" -> [kind |-> "HelpRequested", ns |-> ns]
           [] argv[i] = "--version" -> [kind |-> "VersionRequested", ns |-> ns]
           [] argv[i] = "--malformed" -> [kind |-> "ArgumentError", ns |-> ns]
           [] argv[i] = "--verbose" ->
                ParseFrom(argv, i + 1, [ns EXCEPT !.verbose = TRUE])
           [] argv[i] = "--quiet" ->
                ParseFrom(argv, i + 1, [ns EXCEPT !.quiet = TRUE])
           [] argv[i] = "--config" ->
                ParseFrom(argv, i + 1, [ns EXCEPT !.config = CliApplicationConfig])
           [] argv[i] = "--logging-config" ->
                ParseFrom(argv, i + 1,
                          [ns EXCEPT !.logging_config = CliLoggingConfig])
           [] OTHER -> ParseFrom(argv, i + 1, ns)

ParseKnownArgs(argv) == ParseFrom(argv, 1, DefaultNamespace)

\* An __init_argparse without the verbose/quiet check.
VerboseQuietIgnored(ns) == FALSE

\* __init_argparse: "if self._args.verbose and self._args.quiet".
VerboseQuietConflict(ns) == ns.verbose /\ ns.quiet

\* How the parser signals an error it finds after the last argument (a
\* required argument that add_arguments declared is missing): the parser's
\* error() exits with status 2, or raises ArgumentError, depending on the
\* interpreter's argparse.
RequiredMissingSignals == {Exc("ArgumentError"), SysExit(<<2>>)}

-----------------------------------------------------------------------------
(* Logging                                                                 *)

NoLogging == [type |-> "None", filepath |-> None, source |-> "None"]

\* What a logging configuration file can hold: a valid document, one that
\* yaml.safe_load rejects, or one that dictConfig rejects.
LoggingContents == {"ok", "YAMLError", "ValueError"}

\* __init_logging: open, yaml.safe_load, dictConfig.  "ok", or the exception.
InitLogging(config_filepath, files, content) ==
    IF config_filepath \notin files THEN "OSError" ELSE content

\* __get_log_level: reads self._args.verbose.
GetLogLevelRaises(a) == a = None

\* __init_default_logging: the log level and the log file path are read from
\* self._args, then the default configuration is loaded and activated.
InitDefaultLogging(a, c, lg, files, content) ==
    IF GetLogLevelRaises(a)
    THEN [ok |-> FALSE, exc |-> Exc("AttributeError"), logging |-> lg]
    ELSE LET filepath == IF c.logging_default_config_filepath # None
                         THEN c.logging_default_config_filepath
                         ELSE BuiltinDefaultLoggingConfig
             r == InitLogging(filepath, files \cup {BuiltinDefaultLoggingConfig},
                              IF filepath = BuiltinDefaultLoggingConfig
                              THEN "ok" ELSE content)
         IN IF r = "ok"
            THEN [ok |-> TRUE, exc |-> Exc("none"),
                  logging |-> [lg EXCEPT !.type = "DEFAULT", !.filepath = filepath]]
            ELSE [ok |-> FALSE, exc |-> Exc(r), logging |-> lg]

\* The exceptions __init_custom_logging catches around __init_logging.
CustomLoggingCaught == {"ValueError", "TypeError", "AttributeError", "ImportError"}

\* An __init_custom_logging for which a search that finds nothing is as fatal
\* as it is for the application configuration.
InitCustomLoggingNotFoundFatal(a, c, lg, files, content, default_content) ==
    LET found == FindLoggingConfigFilepath(a, c, files)
        dl == InitDefaultLogging(a, c, lg, files, default_content)
    IN IF found.path # None
       THEN LET r == InitLogging(found.path, files, content)
            IN IF r = "ok"
               THEN [exc |-> Exc("none"), events |-> <<"dictConfig">>,
                     logging |-> [type |-> "CUSTOM", filepath |-> found.path,
                                  source |-> found.source]]
               ELSE [exc |-> Exit(TRUE).exc,
                     events |-> <<"custom_logging_failed", "error">>,
                     logging |-> lg]
       ELSE [exc |-> Exit(TRUE).exc,
             events |-> <<"logging_config_not_found", "error">>, logging |-> lg]

\* __init_custom_logging.  The result: the exception that leaves it (type
\* "none" when it returns), the new logging fields and what it did.  The
\* events "custom_logging_failed" and "logging_config_not_found" record that
\* __init_logging raised for the resolved file, and that no file was resolved.
InitCustomLogging(a, c, lg, files, content, default_content) ==
    LET found == FindLoggingConfigFilepath(a, c, files)
        dl == InitDefaultLogging(a, c, lg, files, default_content)
        failed(r) == IF r = "ValueError"
                     THEN <<"dictConfig_raised", "custom_logging_failed">>
                     ELSE <<"custom_logging_failed">>
    IN IF found.path # None
       THEN LET r == InitLogging(found.path, files, content)
            IN IF r = "ok"
               THEN [exc |-> Exc("none"), events |-> <<"dictConfig">>,
                     logging |-> [type |-> "CUSTOM", filepath |-> found.path,
                                  source |-> found.source]]
               ELSE IF r \in CustomLoggingCaught
               THEN IF dl.ok
                    THEN [exc |-> Exit(TRUE).exc,
                          events |-> failed(r) \o <<"dictConfig", "error", "error">>
                                       \o Exit(TRUE).events,
                          logging |-> dl.logging]
                    ELSE [exc |-> dl.exc, events |-> failed(r), logging |-> lg]
               ELSE [exc |-> Exc(r), events |-> failed(r), logging |-> lg]
       ELSE IF dl.ok
            THEN [exc |-> Exc("none"),
                  events |-> <<"logging_config_not_found", "dictConfig">>,
                  logging |-> dl.logging]
            ELSE [exc |-> dl.exc, events |-> <<"logging_config_not_found">>,
                  logging |-> lg]

\* An __init_stage_two that initialises default logging after custom logging
\* ("if" for "elif").
InitStageTwoLoggingBoth(a, c, lg, files, content, default_content) ==
    LET custom == IF c.logging_init_custom_logging_enabled
                  THEN InitCustomLogging(a, c, lg, files, content, default_content)
                  ELSE [exc |-> Exc("none"), events |-> <<>>, logging |-> lg]
        dl == InitDefaultLogging(a, c, custom.logging, files, default_content)
    IN IF custom.exc.type = "none" /\ c.logging_init_default_logging_enabled
       THEN IF dl.ok
            THEN [exc |-> Exc("none"), events |-> custom.events \o <<"dictConfig">>,
                  logging |-> dl.logging]
            ELSE [exc |-> dl.exc, events |-> custom.events, logging |-> custom.logging]
       ELSE custom

\* An __init_stage_two in which the default-logging toggle also governs the
\* fallback of custom logging: with nothing resolved and default logging
\* disabled it activates nothing.
InitStageTwoLoggingFallbackGated(a, c, lg, files, content, default_content) ==
    LET dl == InitDefaultLogging(a, c, lg, files, default_content)
    IN IF c.logging_init_custom_logging_enabled
       THEN IF FindLoggingConfigFilepath(a, c, files).path = None
               /\ ~c.logging_init_default_logging_enabled
            THEN [exc |-> Exc("none"), events |-> <<"logging_config_not_found">>,
                  logging |-> lg]
            ELSE InitCustomLogging(a, c, lg, files, content, default_content)
       ELSE IF c.logging_init_default_logging_enabled
       THEN IF dl.ok
            THEN [exc |-> Exc("none"), events |-> <<"dictConfig">>,
                  logging |-> dl.logging]
            ELSE [exc |-> dl.exc, events |-> <<>>, logging |-> lg]
       ELSE [exc |-> Exc("none"), events |-> <<>>, logging |-> lg]

\* __init_stage_two, its first statement: custom logging, else default
\* logging, else nothing.
InitStageTwoLogging(a, c, lg, files, content, default_content) ==
    IF c.logging_init_custom_logging_enabled
    THEN InitCustomLogging(a, c, lg, files, content, default_content)
    ELSE IF c.logging_init_default_logging_enabled
    THEN LET dl == InitDefaultLogging(a, c, lg, files, default_content)
         IN IF dl.ok
            THEN [exc |-> Exc("none"), events |-> <<"dictConfig">>,
                  logging |-> dl.logging]
            ELSE [exc |-> dl.exc, events |-> <<>>, logging |-> lg]
    ELSE [exc |-> Exc("none"), events |-> <<>>, logging |-> lg]

\* An __init_argparse without the except clause for help and version
\* requests: they reach the clause for every other exception.
ArgparseExceptNoHelp(exc, a, c, lg, files, default_content) ==
    IF exc.type = "SystemExit"
    THEN [exc |-> Exit(FALSE).exc, events |-> Exit(FALSE).events, logging |-> lg]
    ELSE LET dl == InitDefaultLogging(a, c, lg, files, default_content)
         IN IF dl.ok
            THEN [exc |-> Exit(TRUE).exc,
                  events |-> <<"dictConfig", "error", "error">> \o Exit(TRUE).events,
                  logging |-> dl.logging]
            ELSE [exc |-> dl.exc, events |-> <<>>, logging |-> lg]

\* The except clauses of __init_argparse, for the exception exc raised in its
\* try block: the exception that leaves the method, the new logging fields
\* and what was done.
ArgparseExcept(exc, a, c, lg, files, default_content) ==
    IF exc.type \in {"SystemExit", "HelpRequested", "VersionRequested"}
    THEN [exc |-> Exit(FALSE).exc, events |-> Exit(FALSE).events, logging |-> lg]
    ELSE LET dl == InitDefaultLogging(a, c, lg, files, default_content)
         IN IF dl.ok
            THEN [exc |-> Exit(TRUE).exc,
                  events |-> <<"dictConfig", "error", "error">> \o Exit(TRUE).events,
                  logging |-> dl.logging]
            ELSE [exc |-> dl.exc, events |-> <<>>, logging |-> lg]

\* The files the default logging activation may open, and what they may hold.
DefaultLoggingFiles(c) ==
    IF c.logging_default_config_filepath # None
    THEN SUBSET {c.logging_default_config_filepath} ELSE {{}}

DefaultLoggingContents(c) ==
    IF c.logging_default_config_filepath # None THEN {"ok", "ValueError"} ELSE {"ok"}

\* The candidates find_logging_config_filepath consults.
LoggingCandidates(a, c) ==
    IF a.logging_config # None THEN {a.logging_config}
    ELSE IF c.logging_config_filepath # None THEN {c.logging_config_filepath}
    ELSE Combinations(c.logging_config_search_paths, c.logging_config_search_filenames)

-----------------------------------------------------------------------------
(* Application configuration                                               *)

NoApplicationConfig == [config |-> None, filepath |-> None, source |-> "None"]

\* How reading the resolved file can end: json.load succeeds or fails, and
\* with a schema configured the schema cannot be read, or jsonschema.validate
\* succeeds or fails.
ApplicationConfigContents(c) ==
    {"ok", "JSONDecodeError"}
    \cup (IF c.application_config_schema_filepath # None
          THEN {"ValidationError", "SchemaError"} ELSE {})

\* __init_application_config, the try block for a resolved path: what was
\* done before it ended ("json.load" and "validate" when they succeeded).
ReadApplicationConfig(c, filepath, files, content) ==
    IF filepath \notin files \/ content = "JSONDecodeError" THEN <<>>
    ELSE IF c.application_config_schema_filepath # None /\ content = "ok"
    THEN <<"json.load", "validate">>
    ELSE <<"json.load">>

\* __init_application_config, the except clause: three error lines, __exit.
ApplicationConfigExcept ==
    <<"application_config_failed", "error", "error", "error">> \o Exit(TRUE).events

\* An __init_application_config whose "not found" branch logs and returns.
InitApplicationConfigNoExit(a, c, files, content) ==
    LET found == FindApplicationConfigFilepath(a, c, files)
        resolved == [config |-> None, filepath |-> found.path,
                     source |-> found.source]
        read == ReadApplicationConfig(c, found.path, files, content)
    IN IF found.path # None
       THEN IF found.path \in files /\ content = "ok"
            THEN [exc |-> Exc("none"), events |-> read,
                  application |-> [resolved EXCEPT !.config = <<"loaded">>]]
            ELSE [exc |-> Exit(TRUE).exc,
                  events |-> read \o ApplicationConfigExcept,
                  application |-> resolved]
       ELSE [exc |-> Exc("none"), events |-> <<"error", "error", "error">>,
             application |-> resolved]

\* An __init_application_config that assigns self.application_config right
\* after json.load, before the schema is looked at.
InitApplicationConfigExposeFirst(a, c, files, content) ==
    LET found == FindApplicationConfigFilepath(a, c, files)
        resolved == [config |-> None, filepath |-> found.path,
                     source |-> found.source]
        read == ReadApplicationConfig(c, found.path, files, content)
    IN IF found.path # None
       THEN IF found.path \in files /\ content = "ok"
            THEN [exc |-> Exc("none"), events |-> read,
                  application |-> [resolved EXCEPT !.config = <<"loaded">>]]
            ELSE [exc |-> Exit(TRUE).exc,
                  events |-> read \o ApplicationConfigExcept,
                  application |-> IF read # <<>>
                                  THEN [resolved EXCEPT !.config = <<"loaded">>]
                                  ELSE resolved]
       ELSE [exc |-> Exit(TRUE).exc,
             events |-> <<"error", "error", "error">> \o Exit(TRUE).events,
             application |-> resolved]

\* __init_application_config.  The result: the exception that leaves it (type
\* "none" when it returns), the new application-config fields, what it did.
\* self.application_config is assigned last in the try block.
InitApplicationConfig(a, c, files, content) ==
    LET found == FindApplicationConfigFilepath(a, c, files)
        resolved == [config |-> None, filepath |-> found.path,
                     source |-> found.source]
        read == ReadApplicationConfig(c, found.path, files, content)
    IN IF found.path # None
       THEN IF found.path \in files /\ content = "ok"
            THEN [exc |-> Exc("none"), events |-> read,
                  application |-> [resolved EXCEPT !.config = <<"loaded">>]]
            ELSE [exc |-> Exit(TRUE).exc,
                  events |-> read \o ApplicationConfigExcept,
                  application |-> resolved]
       ELSE [exc |-> Exit(TRUE).exc,
             events |-> <<"error", "error", "error">> \o Exit(TRUE).events,
             application |-> resolved]

\* The candidates find_application_config_filepath consults.
ApplicationCandidates(a, c) ==
    IF a.config # None THEN {a.config}
    ELSE IF c.application_config_filepath # None THEN {c.application_config_filepath}
    ELSE Combinations(c.application_config_search_paths,
                      c.application_config_search_filenames)

-----------------------------------------------------------------------------
(* The lifecycle                                                           *)

Stages == 1..3

\* The positions of start(), in program order.
PcOrder ==
    <<"constructed", "add_arguments", "parse_args", "stage_one_hooks",
      "init_logging", "init_application_config", "stage_two_hooks",
      "stage_three", "stage_three_hooks", "run", "done">>

PcRank(p) == CHOOSE i \in 1..Len(PcOrder) : PcOrder[i] = p

\* Where the "for ... in self._custom_init_stage_N_methods" loop of stage s is.
HookPc(s) == <<"stage_one_hooks", "stage_two_hooks", "stage_three_hooks">>[s]

\* A start() that calls __init_stage_three before __init_stage_two.
AfterStageSwapped(s) == <<"stage_three", "run", "init_logging">>[s]

\* start(): what follows the call of __init_stage_one, _two, _three.
AfterStage(s) == <<"init_logging", "stage_three", "run">>[s]

CoreDone(s) == <<"core1", "core2", "core3">>[s]
HookRan(s) == <<"hook1", "hook2", "hook3">>[s]
StageDone(s) == <<"end1", "end2", "end3">>[s]

\* The lifecycle stage that begins at position p.
Entered(p) ==
    CASE p = "init_logging" -> "STAGE_TWO"
      [] p = "stage_three" -> "STAGE_THREE"
      [] p = "run" -> "RUNNING"
      [] OTHER -> "STAGE_ONE"

\* Stage s has returned and start() goes on to what follows it.
AfterStageEvents(s) == <<StageDone(s), Entered(AfterStage(s))>>

\* add_custom_init_stage_one, _two, _three: append to the stage's list.  A
\* hook is named by its place in the list it was appended to.
AddCustomInitStage(m, s) == [m EXCEPT ![s] = Append(@, Len(@) + 1)]

Registered == Len(methods[1]) + Len(methods[2]) + Len(methods[3])

\* What application code may register while it runs: nothing (0), or one hook
\* for some stage.
Registrations == {0} \cup (IF Registered < budget THEN Stages ELSE {})

\* The loop of stage s has ended at position p.
WindowClosed(s, p) == PcRank(p) > PcRank(HookPc(s))

\* Application code running at the current position registers r.
Register(r) ==
    /\ methods' = IF r = 0 THEN methods ELSE AddCustomInitStage(methods, r)
    /\ late' = IF r # 0 /\ WindowClosed(r, pc)
               THEN late \cup {<<r, Len(methods[r]) + 1>>} ELSE late

\* A start() whose final "return -1" belongs to the last except clause: after
\* a SystemExit whose code is no integer it returns nothing.
TerminateNoFinalReturn(exc, evs) ==
    /\ pc' = "done"
    /\ status' = IF exc.type = "SystemExit" /\ exc.code = None THEN None
                 ELSE <<StartCatch(exc)>>
    /\ events' = events \o evs \o StartCatchEvents(exc) \o <<"TERMINATED">>

\* start() returns: exc left the try block and an except clause caught it.
Terminate(exc, evs) ==
    /\ pc' = "done"
    /\ status' = <<StartCatch(exc)>>
    /\ events' = events \o evs \o StartCatchEvents(exc) \o <<"TERMINATED">>

\* Either the step raised and start() returns, or it went on to position p.
Proceed(exc, evs, p) ==
    IF exc.type # "none" THEN Terminate(exc, evs)
    ELSE /\ pc' = p
         /\ events' = events \o evs
         /\ UNCHANGED status

\* The constructor's parameters and the two capabilities it probes.  A
\* parameter that the enabled features never read is left at its default.
Configs ==
    {c \in [run_method_available : BOOLEAN,
            add_arguments_method_available : BOOLEAN,
            logging_init_custom_logging_enabled : BOOLEAN,
            logging_init_default_logging_enabled : BOOLEAN,
            logging_config_filepath : {None, CtorLoggingConfig},
            logging_config_search_paths : {<<"cwd", "home">>},
            logging_config_search_filenames : {<<"logging.yaml">>},
            logging_default_config_filepath : {None},
            application_config_init_enabled : BOOLEAN,
            application_config_schema_filepath : {None, <<"ctor", "schema.json">>},
            application_config_filepath : {None, CtorApplicationConfig},
            application_config_search_paths : {<<"cwd", "home">>},
            application_config_search_filenames : {<<"app.json">>}] :
        /\ ~c.logging_init_custom_logging_enabled => c.logging_config_filepath = None
        /\ ~c.application_config_init_enabled =>
              /\ c.application_config_schema_filepath = None
              /\ c.application_config_filepath = None}

\* No logging document is studied.
NoDocument == [loaded |-> None, activated |-> None]

\* No Command object is studied.
NoTree == [nodes |-> <<>>, adds |-> 0, last |-> [op |-> "none"]]

\* No interactive loop is active and no input was read.  depth counts the
\* active loops, lines the inputs read so far; selected is the handler the
\* arguments of start() selected; last describes the latest input and what
\* the loop did with it.
NoShell ==
    [depth |-> 0, lines |-> 0, selected |-> None,
     last |-> [input |-> "none", prev |-> "none", unregistered |-> FALSE,
               parsed |-> FALSE, invoked |-> None, raised |-> "none",
               did |-> "none"]]

NoResolver == [kind |-> "none", files |-> {}, path |-> None, source |-> "None"]

\* The state after construction, for a set of constructor parameters and a
\* number of hook registrations.
Constructed(configs, hooks) ==
    /\ pc = "constructed"
    /\ config \in configs
    /\ budget = hooks
    /\ args = None
    /\ raised = Exc("none")
    /\ methods = [s \in Stages |-> <<>>]
    /\ idx = 0
    /\ ran = [s \in Stages |-> <<>>]
    /\ late = {}
    /\ logging_config = NoLogging
    /\ application_config = NoApplicationConfig
    /\ ret = [called |-> FALSE, returned |-> FALSE, value |-> None, exc |-> Exc("none")]
    /\ events = <<>>
    /\ status = None
    /\ resolver = NoResolver
    /\ shell = NoShell
    /\ tree = NoTree
    /\ document = NoDocument

Init == Constructed(Configs, MaxHooks)

\* The configurations under which the hook lists are studied: no
\* constructor-specified configuration paths.
StageConfigs ==
    {c \in Configs :
        /\ c.logging_config_filepath = None
        /\ c.application_config_filepath = None
        /\ c.application_config_schema_filepath = None}

InitStages == Constructed(StageConfigs, MaxStageHooks)

\* The application calls add_custom_init_stage_* before it calls start().
RegisterBeforeStart ==
    /\ pc = "constructed"
    /\ \E s \in Stages : s \in Registrations /\ Register(s)
    /\ UNCHANGED <<pc, config, args, raised, idx, ran, logging_config,
                   application_config, ret, events, status, budget, resolver,
                   shell, tree,
                   document>>

\* start() is called: __init_stage_one, __init_argparse declare the arguments.
Start ==
    /\ pc = "constructed"
    /\ pc' = "add_arguments"
    /\ events' = events \o <<"STAGE_ONE">>
    /\ UNCHANGED <<config, args, raised, methods, idx, ran, late, logging_config,
                   application_config, ret, status, budget, resolver,
                   shell, tree,
                   document>>

\* __init_argparse: the application's add_arguments, if it has one, and the
\* except clauses for what it raises.
AddArguments ==
    /\ pc = "add_arguments"
    /\ \/ /\ pc' = "parse_args"
          /\ UNCHANGED <<raised, logging_config, events, status>>
       \/ /\ config.add_arguments_method_available
          /\ \E exc \in UserRaises \cup {Exc("ArgumentError")},
                files \in DefaultLoggingFiles(config),
                dc \in DefaultLoggingContents(config) :
                LET h == ArgparseExcept(exc, args, config, logging_config, files, dc)
                IN /\ raised' = exc
                   /\ logging_config' = h.logging
                   /\ Terminate(h.exc, h.events)
    /\ UNCHANGED <<config, args, methods, idx, ran, late,
                   application_config, ret, budget, resolver,
                   shell, tree,
                   document>>

\* __init_argparse: parse_known_args, the verbose/quiet check and the except
\* clauses.  self._args is assigned only when parse_known_args returns.
ParseArgs ==
    /\ pc = "parse_args"
    /\ \E argv \in Argvs :
        LET p == ParseKnownArgs(argv) IN
        \/ /\ p.kind = "ok"
           /\ ~VerboseQuietConflict(p.ns)
           /\ args' = p.ns
           /\ Proceed(Exc("none"), <<CoreDone(1)>>, HookPc(1))
           /\ UNCHANGED <<raised, logging_config>>
        \/ /\ p.kind = "ok"
           /\ VerboseQuietConflict(p.ns)
           /\ args' = p.ns
           /\ raised' = Exc("ArgumentError")
           /\ \E files \in DefaultLoggingFiles(config),
                 dc \in DefaultLoggingContents(config) :
                 LET h == ArgparseExcept(Exc("ArgumentError"), p.ns, config,
                                         logging_config, files, dc)
                 IN /\ logging_config' = h.logging
                    /\ Terminate(h.exc, h.events)
        \/ /\ p.kind = "ok"
           /\ config.add_arguments_method_available
           /\ \E signal \in RequiredMissingSignals :
                 LET h == ArgparseExcept(signal, args, config, logging_config, {}, "ok")
                 IN /\ raised' = signal
                    /\ logging_config' = h.logging
                    /\ Terminate(h.exc, h.events)
           /\ UNCHANGED args
        \/ /\ p.kind # "ok"
           /\ LET h == ArgparseExcept(Exc(p.kind), args, config, logging_config, {}, "ok")
              IN /\ raised' = Exc(p.kind)
                 /\ logging_config' = h.logging
                 /\ Terminate(h.exc, h.events)
           /\ UNCHANGED args
    /\ idx' = 0
    /\ UNCHANGED <<config, methods, ran, late, application_config, ret, budget,
                   resolver,
                   shell, tree,
                   document>>

\* A loop that walks the list from its end.
NextMethodReversed(list, i) == list[Len(list) - i]

\* "for custom_init_stage_method in list": the element the loop takes after
\* i iterations.
NextMethod(list, i) == list[i + 1]

\* One iteration of "for custom_init_stage_method in ...: custom_init_stage_method()".
CustomInitStageMethod(s) ==
    /\ pc = HookPc(s)
    /\ idx < Len(methods[s])
    /\ ran' = [ran EXCEPT ![s] = Append(@, NextMethod(methods[s], idx))]
    /\ \/ /\ \E r \in Registrations : Register(r)
          /\ idx' = idx + 1
          /\ events' = events \o <<HookRan(s)>>
          /\ UNCHANGED <<pc, status>>
       \/ /\ \E exc \in UserRaises : Terminate(exc, <<HookRan(s)>>)
          /\ UNCHANGED <<methods, late, idx>>
    /\ UNCHANGED <<config, args, raised, logging_config, application_config, ret,
                   budget, resolver,
                   shell, tree,
                   document>>

\* The loop of stage s is exhausted: __init_stage_<s> returns to start().
EndOfStage(s) ==
    /\ pc = HookPc(s)
    /\ idx = Len(methods[s])
    /\ pc' = AfterStage(s)
    /\ idx' = 0
    /\ events' = events \o AfterStageEvents(s)
    /\ UNCHANGED <<config, args, raised, methods, ran, late, logging_config,
                   application_config, ret, status, budget, resolver,
                   shell, tree,
                   document>>

\* __init_stage_two: custom logging, else default logging.
StageTwoLogging ==
    /\ pc = "init_logging"
    /\ \E files \in SUBSET LoggingCandidates(args, config),
          content \in LoggingContents,
          dfiles \in DefaultLoggingFiles(config),
          dc \in DefaultLoggingContents(config) :
          LET r == InitStageTwoLogging(args, config, logging_config,
                                       files \cup dfiles, content, dc)
          IN /\ logging_config' = r.logging
             /\ Proceed(r.exc, r.events, "init_application_config")
    /\ UNCHANGED <<config, args, raised, methods, idx, ran, late,
                   application_config, ret, budget, resolver,
                   shell, tree,
                   document>>

\* __init_stage_two: the application configuration, if enabled.
StageTwoApplicationConfig ==
    /\ pc = "init_application_config"
    /\ \/ /\ ~config.application_config_init_enabled
          /\ Proceed(Exc("none"), <<CoreDone(2)>>, HookPc(2))
          /\ UNCHANGED application_config
       \/ /\ config.application_config_init_enabled
          /\ \E files \in SUBSET ApplicationCandidates(args, config),
                content \in ApplicationConfigContents(config) :
                LET r == InitApplicationConfig(args, config, files, content)
                IN /\ application_config' = r.application
                   /\ Proceed(r.exc, r.events \o (IF r.exc.type = "none"
                                                  THEN <<CoreDone(2)>> ELSE <<>>),
                              HookPc(2))
    /\ UNCHANGED <<config, args, raised, methods, idx, ran, late, logging_config,
                   ret, budget, resolver,
                   shell, tree,
                   document>>

\* A stage three that resolves the configuration anew and forgets the loaded one.
StageThreeResetsApplicationConfig ==
    /\ pc = "stage_three"
    /\ Proceed(Exc("none"), <<CoreDone(3)>>, HookPc(3))
    /\ application_config' = NoApplicationConfig
    /\ UNCHANGED <<config, args, raised, methods, idx, ran, late, logging_config,
                   ret, budget, resolver, shell, tree, document>>

\* __init_stage_three: the diagnostic dump, at debug level.
StageThree ==
    /\ pc = "stage_three"
    /\ Proceed(Exc("none"), <<CoreDone(3)>>, HookPc(3))
    /\ UNCHANGED <<config, args, raised, methods, idx, ran, late, logging_config,
                   application_config, ret, budget, resolver,
                   shell, tree,
                   document>>

\* What run may return: nothing, or an integer.
RunReturns == {None, <<0>>, <<3>>}

\* A start() that returns ret as it is.
StartReturnNoDefault(v) == IF v # None THEN v[1] ELSE -1

\* start(): "return ret if ret else 0".
StartReturn(v) == IF v # None /\ v[1] # 0 THEN v[1] ELSE 0

\* A start() that takes a missing run entry point for a run that returned
\* nothing: it logs no error and returns 0.
RunMissingReturnsZero ==
    /\ pc = "run"
    /\ \/ /\ ~config.run_method_available
          /\ pc' = "done"
          /\ status' = <<StartReturn(None)>>
          /\ events' = events \o <<"TERMINATED">>
          /\ UNCHANGED ret
       \/ /\ config.run_method_available
          /\ \E v \in RunReturns :
                /\ ret' = [called |-> TRUE, returned |-> TRUE, value |-> v,
                           exc |-> Exc("none")]
                /\ status' = <<StartReturn(v)>>
          /\ pc' = "done"
          /\ events' = events \o <<"run", "TERMINATED">>
       \/ /\ config.run_method_available
          /\ \E exc \in UserRaises :
                /\ Terminate(exc, <<"run">>)
                /\ ret' = [called |-> TRUE, returned |-> FALSE, value |-> None,
                           exc |-> exc]
    /\ UNCHANGED <<config, args, raised, methods, idx, ran, late, logging_config,
                   application_config, budget, resolver,
                   shell, tree,
                   document>>

\* start(): the run entry point, if the application has one.
Run ==
    /\ pc = "run"
    /\ \/ /\ ~config.run_method_available
          /\ pc' = "done"
          /\ status' = <<-1>>
          /\ events' = events \o <<"error", "TERMINATED">>
          /\ UNCHANGED ret
       \/ /\ config.run_method_available
          /\ \E v \in RunReturns :
                /\ ret' = [called |-> TRUE, returned |-> TRUE, value |-> v,
                           exc |-> Exc("none")]
                /\ status' = <<StartReturn(v)>>
          /\ pc' = "done"
          /\ events' = events \o <<"run", "TERMINATED">>
       \/ /\ config.run_method_available
          /\ \E exc \in UserRaises :
                /\ Terminate(exc, <<"run">>)
                /\ ret' = [called |-> TRUE, returned |-> FALSE, value |-> None,
                           exc |-> exc]
    /\ UNCHANGED <<config, args, raised, methods, idx, ran, late, logging_config,
                   application_config, budget, resolver,
                   shell, tree,
                   document>>

Next ==
    \/ RegisterBeforeStart
    \/ Start
    \/ AddArguments
    \/ ParseArgs
    \/ \E s \in Stages : CustomInitStageMethod(s)
    \/ \E s \in Stages : EndOfStage(s)
    \/ StageTwoLogging
    \/ StageTwoApplicationConfig
    \/ StageThree
    \/ Run

Spec == Init /\ [][Next]_vars

\* The steps start() takes once it was called: it is one sequential call, and
\* each of its steps, once reached, is taken.
InsideStart ==
    \/ AddArguments
    \/ ParseArgs
    \/ \E s \in Stages : CustomInitStageMethod(s)
    \/ \E s \in Stages : EndOfStage(s)
    \/ StageTwoLogging
    \/ StageTwoApplicationConfig
    \/ StageThree
    \/ Run

SpecLive == Spec /\ WF_vars(InsideStart)

SpecStages == InitStages /\ [][Next]_vars

-----------------------------------------------------------------------------
(* Configuration path resolution on its own: the two resolvers applied to  *)
(* every combination of a CLI path, a constructor path, search lists and   *)
(* existing files.                                                         *)

DirectoryNames == <<"D1", "D2", "D3", "D4">>
FileNames == <<"F1", "F2", "F3", "F4">>

SearchPaths == SubSeq(DirectoryNames, 1, MaxDirs)
SearchFilenames == SubSeq(FileNames, 1, MaxNames)

\* The constructor parameters the resolvers read.
ResolverConfigs(kind) ==
    {c \in [run_method_available : {TRUE},
            add_arguments_method_available : {FALSE},
            logging_init_custom_logging_enabled : {TRUE},
            logging_init_default_logging_enabled : {TRUE},
            logging_config_filepath : {None, CtorLoggingConfig},
            logging_config_search_paths : {SearchPaths},
            logging_config_search_filenames : {SearchFilenames},
            logging_default_config_filepath : {None},
            application_config_init_enabled : {TRUE},
            application_config_schema_filepath : {None},
            application_config_filepath : {None, CtorApplicationConfig},
            application_config_search_paths : {SearchPaths},
            application_config_search_filenames : {SearchFilenames}] :
        IF kind = "application" THEN c.logging_config_filepath = None
        ELSE c.application_config_filepath = None}

\* The namespaces parse_known_args can produce for them.
ResolverArgs(kind) ==
    {a \in [verbose : {FALSE}, quiet : {FALSE},
            config : {None, CliApplicationConfig},
            logging_config : {None, CliLoggingConfig}] :
        IF kind = "application" THEN a.logging_config = None ELSE a.config = None}

\* Every file a resolver of this kind can name.
ResolverPaths(kind) ==
    Combinations(SearchPaths, SearchFilenames)
    \cup (IF kind = "application"
          THEN {CliApplicationConfig, CtorApplicationConfig}
          ELSE {CliLoggingConfig, CtorLoggingConfig})

InitResolve ==
    /\ pc = "resolve"
    /\ \E kind \in {"application", "logging"} :
          /\ config \in ResolverConfigs(kind)
          /\ args \in ResolverArgs(kind)
          /\ resolver \in [kind : {kind}, files : SUBSET ResolverPaths(kind),
                           path : {None}, source : {"None"}]
    /\ budget = 0
    /\ shell = NoShell
    /\ tree = NoTree
    /\ document = NoDocument
    /\ raised = Exc("none")
    /\ methods = [s \in Stages |-> <<>>]
    /\ idx = 0
    /\ ran = [s \in Stages |-> <<>>]
    /\ late = {}
    /\ logging_config = NoLogging
    /\ application_config = NoApplicationConfig
    /\ ret = [called |-> FALSE, returned |-> FALSE, value |-> None, exc |-> Exc("none")]
    /\ events = <<>>
    /\ status = None

\* find_application_config_filepath() is called.
ResolveApplicationConfig ==
    /\ pc = "resolve"
    /\ resolver.kind = "application"
    /\ LET found == FindApplicationConfigFilepath(args, config, resolver.files)
       IN resolver' = [resolver EXCEPT !.path = found.path, !.source = found.source]
    /\ pc' = "resolved"
    /\ UNCHANGED <<config, args, raised, methods, idx, ran, late, logging_config,
                   application_config, ret, events, status, budget,
                   shell, tree,
                   document>>

\* find_logging_config_filepath() is called.
ResolveLoggingConfig ==
    /\ pc = "resolve"
    /\ resolver.kind = "logging"
    /\ LET found == FindLoggingConfigFilepath(args, config, resolver.files)
       IN resolver' = [resolver EXCEPT !.path = found.path, !.source = found.source]
    /\ pc' = "resolved"
    /\ UNCHANGED <<config, args, raised, methods, idx, ran, late, logging_config,
                   application_config, ret, events, status, budget,
                   shell, tree,
                   document>>

NextResolve == ResolveApplicationConfig \/ ResolveLoggingConfig

SpecResolve == InitResolve /\ [][NextResolve]_vars

-----------------------------------------------------------------------------
(* SubcommandApplication: the command tree as the parser sees it, the      *)
(* one-shot dispatch of run and the interactive loop.  A command path is a *)
(* sequence of command names; a handler is the sequence that names it.     *)

ShellHandler == <<"_handle_root_command">>
DefaultHandler == <<"default_handler">>
UserHandler(path) == <<"handler">> \o path

\* The trees the application registers before start(): nothing, "count",
\* "count up", or "count" and then "count up", each with a handler.
CommandTrees ==
    {{}, {<<"count">>}, {<<"count", "up">>}, {<<"count">>, <<"count", "up">>}}

\* add_subcommand: a path creates the nodes of all its prefixes.
Nodes(commands) ==
    UNION {{SubSeq(path, 1, n) : n \in 1..Len(path)} : path \in commands}

\* self.subcommands of a node.
Children(commands, node) ==
    {n \in Nodes(commands) :
        Len(n) = Len(node) + 1 /\ SubSeq(n, 1, Len(node)) = node}

\* A SubcommandApplication whose root command always gets the loop.
RootHandlerAlwaysShell(c) == ShellHandler

\* SubcommandApplication.__init__: the handler given to the root command.
RootHandler(c) == IF c.shell_enabled THEN ShellHandler ELSE None

\* The handler a node was constructed with: the root's, the registered one of
\* a path given to add_subcommand, None for a node created on the way.
NodeHandler(c, node) ==
    IF node = <<>> THEN RootHandler(c)
    ELSE IF node \in c.commands THEN UserHandler(node)
    ELSE None

\* Command.__init__: set_defaults(handler=handler or self.default_handler).
CommandHandler(handler) == IF handler # None THEN handler ELSE DefaultHandler

\* One token of an input line or of argv: a command name or an option.
ShellTokens == {"count", "up", "foo", "--help", "--version", "--verbose"}

IsOption(t) == t \in {"--help", "--version", "--verbose"}

\* Input lines, as the tokens between their blanks; <<>> is the empty line.
Lines == UNION {[1..n -> ShellTokens] : n \in 0..MaxLineTokens}

ShellNamespace ==
    [verbose |-> FALSE, quiet |-> FALSE, config |-> None,
     logging_config |-> None, handler |-> None]

\* The parser of a node applied to the tokens from the i-th on.  Every parser
\* declares --help; the root parser declares --version and --verbose; a name
\* that is a child hands the rest to the child's parser; any other argument
\* is set aside as unrecognized (extras).  The root parser was created with
\* exit_on_error=False and raises ArgumentError for a wrong choice, the
\* parsers of add_parser exit with status 2.  A node without handler requires
\* one of its children.  kind "error" is the root parser's error().
RECURSIVE ParseCommand(_, _, _, _, _, _)
ParseCommand(c, node, tokens, i, ns, extras) ==
    LET root == node = <<>>
        children == Children(c.commands, node)
        result(kind) == [kind |-> kind, ns |-> ns, extras |-> extras]
    IN IF i > Len(tokens)
       THEN IF children # {} /\ NodeHandler(c, node) = None
            THEN result(IF root THEN "error" ELSE "SystemExit")
            ELSE [kind |-> "ok", extras |-> extras,
                  ns |-> [ns EXCEPT !.handler = CommandHandler(NodeHandler(c, node))]]
       ELSE IF tokens[i] = "--help" THEN result("HelpRequested")
       ELSE IF tokens[i] = "--version" /\ root THEN result("VersionRequested")
       ELSE IF tokens[i] = "--verbose" /\ root
       THEN ParseCommand(c, node, tokens, i + 1, [ns EXCEPT !.verbose = TRUE], extras)
       ELSE IF IsOption(tokens[i]) \/ children = {}
       THEN ParseCommand(c, node, tokens, i + 1, ns, TRUE)
       ELSE IF node \o <<tokens[i]>> \in children
       THEN ParseCommand(c, node \o <<tokens[i]>>, tokens, i + 1, ns, extras)
       ELSE result(IF root THEN "ArgumentError" ELSE "SystemExit")

\* parse_known_args(argv), as __init_argparse calls it: extras are tolerated.
ParseKnownArgsCommand(c, argv) == ParseCommand(c, <<>>, argv, 1, ShellNamespace, FALSE)

\* parse_args(tokens), as the loop calls it: extras are an error().
ParseArgsCommand(c, tokens) ==
    LET p == ParseKnownArgsCommand(c, tokens)
    IN IF p.kind = "ok" /\ p.extras THEN [p EXCEPT !.kind = "error"] ELSE p

\* The exceptions a parse of this kind can end with.
ParseRaises(kind) ==
    IF kind = "error" THEN RequiredMissingSignals
    ELSE IF kind = "SystemExit" THEN {SysExit(<<2>>)}
    ELSE {Exc(kind)}

\* The constructor parameters of the applications the loop is studied with:
\* no logging activation, no application configuration, no add_arguments.
ShellConfigs ==
    [run_method_available : {TRUE},
     add_arguments_method_available : {FALSE},
     logging_init_custom_logging_enabled : {FALSE},
     logging_init_default_logging_enabled : {FALSE},
     logging_config_filepath : {None},
     logging_config_search_paths : {<<"cwd", "home">>},
     logging_config_search_filenames : {<<"logging.yaml">>},
     logging_default_config_filepath : {None},
     application_config_init_enabled : {FALSE},
     application_config_schema_filepath : {None},
     application_config_filepath : {None},
     application_config_search_paths : {<<"cwd", "home">>},
     application_config_search_filenames : {<<"app.json">>},
     shell_enabled : BOOLEAN,
     commands : CommandTrees]

InitShell == Constructed(ShellConfigs, 0)

\* __init_argparse of a SubcommandApplication: parse_known_args with the
\* command tree, and the except clauses.
ParseArgsSubcommand ==
    /\ pc = "parse_args"
    /\ \E argv \in Lines :
        LET p == ParseKnownArgsCommand(config, argv) IN
        \/ /\ p.kind = "ok"
           /\ ~VerboseQuietConflict(p.ns)
           /\ args' = p.ns
           /\ shell' = [shell EXCEPT !.selected = p.ns.handler]
           /\ Proceed(Exc("none"), <<CoreDone(1)>>, HookPc(1))
           /\ UNCHANGED <<raised, logging_config>>
        \/ /\ p.kind # "ok"
           /\ \E exc \in ParseRaises(p.kind) :
                 LET h == ArgparseExcept(exc, args, config, logging_config, {}, "ok")
                 IN /\ raised' = exc
                    /\ logging_config' = h.logging
                    /\ Terminate(h.exc, h.events)
           /\ UNCHANGED <<args, shell>>
    /\ idx' = 0
    /\ UNCHANGED <<config, methods, ran, late, application_config, ret, budget,
                   resolver, tree,
                   document>>

\* start() and SubcommandApplication.run: "return args.handler(args)".  The
\* handler is the loop, the placeholder default_handler or a registered one.
RunSubcommand ==
    /\ pc = "run"
    /\ \/ /\ args.handler = ShellHandler
          /\ pc' = "prompt"
          /\ shell' = [shell EXCEPT !.depth = 1]
          /\ ret' = [ret EXCEPT !.called = TRUE]
          /\ events' = events \o <<"run", "loop">>
          /\ UNCHANGED status
       \/ /\ args.handler = DefaultHandler
          /\ ret' = [called |-> TRUE, returned |-> TRUE, value |-> None,
                     exc |-> Exc("none")]
          /\ status' = <<StartReturn(None)>>
          /\ pc' = "done"
          /\ events' = events \o <<"run", "error", "TERMINATED">>
          /\ UNCHANGED shell
       \/ /\ args.handler \notin {ShellHandler, DefaultHandler}
          /\ \/ \E v \in RunReturns :
                   /\ ret' = [called |-> TRUE, returned |-> TRUE, value |-> v,
                              exc |-> Exc("none")]
                   /\ status' = <<StartReturn(v)>>
                   /\ pc' = "done"
                   /\ events' = events \o <<"run", "handler", "TERMINATED">>
             \/ \E exc \in UserRaises :
                   /\ ret' = [called |-> TRUE, returned |-> FALSE, value |-> None,
                              exc |-> exc]
                   /\ Terminate(exc, <<"run", "handler">>)
          /\ UNCHANGED shell
    /\ UNCHANGED <<config, args, raised, methods, idx, ran, late, logging_config,
                   application_config, budget, resolver, tree,
                   document>>

\* A loop that hands the empty line to the parser as well.
LineGivenAlways(line) == TRUE

\* _handle_root_command: "if subcommand_string".
LineGiven(line) == line # <<>>

\* subcommand_string.split(" ")
Split(line) == IF line = <<>> THEN <<"">> ELSE line

\* _handle_root_command: "return 0".
ShellReturn == 0

\* A loop whose last except clause is "except Exception".
ShellCatchExceptionOnly(exc) ==
    IF exc.type = "KeyboardInterrupt" THEN [caught |-> TRUE, did |-> "aborted"]
    ELSE IF exc.type = "SubcommandNotAvailableError"
    THEN [caught |-> TRUE, did |-> "unavailable"]
    ELSE IF exc.type \in {"HelpRequested", "VersionRequested"}
    THEN [caught |-> TRUE, did |-> "pass"]
    ELSE IF exc.type = "SystemExit" THEN [caught |-> FALSE, did |-> "none"]
    ELSE [caught |-> TRUE, did |-> "error"]

\* _handle_root_command, the except clauses around parse_args and the
\* handler: "Command aborted...", "Command unavailable: ...", pass, or the
\* error line for every other BaseException.
ShellCatch(exc) ==
    IF exc.type = "KeyboardInterrupt" THEN [caught |-> TRUE, did |-> "aborted"]
    ELSE IF exc.type = "SubcommandNotAvailableError"
    THEN [caught |-> TRUE, did |-> "unavailable"]
    ELSE IF exc.type \in {"HelpRequested", "VersionRequested"}
    THEN [caught |-> TRUE, did |-> "pass"]
    ELSE [caught |-> TRUE, did |-> "error"]

\* What a registered handler may raise when the loop invokes it.
HandlerRaises == UserRaises \cup {Exc("SubcommandNotAvailableError")}

\* The line names a command path that is no node of the tree.
Unregistered(c, line) ==
    LET words == SelectSeq(line, LAMBDA t : ~IsOption(t))
    IN words # <<>> /\ words \notin Nodes(c.commands)

\* The try block of one iteration ended with exc (type "none": normally).
\* An exception no clause catches leaves every active loop and run.
AfterCommand(last, exc) ==
    IF exc.type = "none" \/ ShellCatch(exc).caught
    THEN /\ shell' = [shell EXCEPT
                        !.lines = @ + 1,
                        !.last = [last EXCEPT
                                    !.raised = exc.type,
                                    !.did = IF exc.type = "none" THEN "handled"
                                            ELSE ShellCatch(exc).did]]
         /\ UNCHANGED <<pc, status, events>>
    ELSE /\ shell' = [shell EXCEPT
                        !.lines = @ + 1, !.depth = 0,
                        !.last = [last EXCEPT !.raised = exc.type, !.did = "raised"]]
         /\ Terminate(exc, <<>>)

\* _handle_root_command, one iteration in which session.prompt returns a
\* line: nothing for the empty line, else parse_args and the handler.  The
\* root command's handler is the loop itself: it starts a loop inside this one.
ReadLine ==
    /\ pc = "prompt"
    /\ shell.lines < MaxLines
    /\ \E line \in Lines :
        LET last == [NoShell.last EXCEPT
                        !.input = IF line = <<>> THEN "empty" ELSE "line",
                        !.prev = shell.last.input,
                        !.unregistered = Unregistered(config, line)]
            p == ParseArgsCommand(config, Split(line))
            parsed == [last EXCEPT !.parsed = TRUE]
        IN IF ~LineGiven(line)
           THEN /\ shell' = [shell EXCEPT !.lines = @ + 1, !.last = last]
                /\ UNCHANGED <<pc, args, status, events>>
           ELSE \/ /\ p.kind # "ok"
                   /\ \E exc \in ParseRaises(p.kind) : AfterCommand(parsed, exc)
                   /\ UNCHANGED args
                \/ /\ p.kind = "ok"
                   /\ args' = p.ns
                   /\ LET invoked == [parsed EXCEPT !.invoked = p.ns.handler] IN
                      \/ /\ p.ns.handler = ShellHandler
                         /\ shell' = [shell EXCEPT !.lines = @ + 1, !.depth = @ + 1,
                                                   !.last = [invoked EXCEPT !.did = "loop"]]
                         /\ UNCHANGED <<pc, status, events>>
                      \/ /\ p.ns.handler = DefaultHandler
                         /\ AfterCommand(invoked, Exc("none"))
                      \/ /\ p.ns.handler \notin {ShellHandler, DefaultHandler}
                         /\ \E exc \in {Exc("none")} \cup HandlerRaises :
                               AfterCommand(invoked, exc)
    /\ UNCHANGED <<config, raised, methods, idx, ran, late, logging_config,
                   application_config, ret, budget, resolver, tree,
                   document>>

\* _handle_root_command: session.prompt raises EOFError or KeyboardInterrupt
\* and the loop returns 0, to the loop around it or to run and start().
EndOfInput ==
    /\ pc = "prompt"
    /\ \E input \in {"EOF", "KeyboardInterrupt"} :
          shell' = [shell EXCEPT
                      !.depth = @ - 1,
                      !.last = [NoShell.last EXCEPT !.input = input,
                                                    !.prev = shell.last.input,
                                                    !.did = "return"]]
    /\ IF shell.depth = 1
       THEN /\ pc' = "done"
            /\ ret' = [ret EXCEPT !.returned = TRUE, !.value = <<ShellReturn>>]
            /\ status' = <<StartReturn(<<ShellReturn>>)>>
            /\ events' = events \o <<"TERMINATED">>
       ELSE UNCHANGED <<pc, ret, status, events>>
    /\ UNCHANGED <<config, args, raised, methods, idx, ran, late, logging_config,
                   application_config, budget, resolver, tree,
                   document>>

NextShell ==
    \/ Start
    \/ AddArguments
    \/ ParseArgsSubcommand
    \/ \E s \in Stages : EndOfStage(s)
    \/ StageTwoLogging
    \/ StageTwoApplicationConfig
    \/ StageThree
    \/ RunSubcommand
    \/ ReadLine
    \/ EndOfInput

SpecShell == InitShell /\ [][NextShell]_vars

-----------------------------------------------------------------------------
(* Command: the tree of Command objects behind root_command.  tree.nodes   *)
(* holds every Command ever constructed, the root first; a Command is      *)
(* known by its position, so a replaced Command stays distinguishable from *)
(* its replacement.  tree.last is the last call and what it gave.          *)

CommandNames == {"count", "up"}

\* Command paths of one and of two tokens.
CommandPaths ==
    {<<a>> : a \in CommandNames} \cup {<<a, b>> : a, b \in CommandNames}

\* __init_argparse: the option strings it declares on the root parser.
RootOptions ==
    {"-h", "--help", "-v", "--version", "-vv", "--verbose", "-q", "--quiet",
     "--logging-config", "--logging-dir", "-c", "--config"}

\* add_subcommand: the option strings it declares on a subcommand's parser.
SubcommandOptions == {"-h", "--help"}

\* What add_parser does with a name the subparsers action already has:
\* argparse of Python 3.11 and later raises ArgumentError ("conflicting
\* subparser"), earlier ones replace the parser of that name.
Conflicts == {"ArgumentError", "replace"}

\* Command.__init__
Command(handler, options) ==
    [handler |-> handler, subparser |-> "None", subcommands |-> <<>>,
     options |-> options]

\* Command.add_subcommand on the Command id with the chain of tokens.
RECURSIVE AddSubcommandTo(_, _, _, _, _)
AddSubcommandTo(nodes, id, chain, handler, conflict) ==
    LET self == nodes[id]
        name == chain[1]
        new == Len(nodes) + 1
        parent == [self EXCEPT
                      !.subparser = IF @ # "None" THEN @
                                    ELSE IF self.handler = None THEN "required"
                                    ELSE "optional",
                      !.subcommands = (name :> new) @@ @]
        next == IF name \in DOMAIN self.subcommands
                THEN [nodes |-> nodes, returned |-> self.subcommands[name],
                      raised |-> "none"]
                ELSE AddSubcommandTo(nodes, id, <<name>>, None, conflict)
    IN IF Len(chain) = 1
       THEN IF name \in DOMAIN self.subcommands /\ conflict = "ArgumentError"
            THEN [nodes |-> nodes, returned |-> 0, raised |-> "ArgumentError"]
            ELSE [nodes |-> Append([nodes EXCEPT ![id] = parent],
                                   Command(handler, SubcommandOptions)),
                  returned |-> new, raised |-> "none"]
       ELSE AddSubcommandTo(next.nodes, next.returned, Tail(chain), handler, conflict)

\* A find_subcommand that stops at the first token of the chain.
FindSubcommandFirstHop(nodes, id, chain) ==
    IF chain[1] \in DOMAIN nodes[id].subcommands
    THEN [returned |-> nodes[id].subcommands[chain[1]], raised |-> "none"]
    ELSE [returned |-> 0, raised |-> "SubcommandNotAvailableError"]

\* Command.find_subcommand on the Command id with the chain of tokens.
RECURSIVE FindSubcommand(_, _, _)
FindSubcommand(nodes, id, chain) ==
    LET self == nodes[id]
    IN IF chain[1] \in DOMAIN self.subcommands
       THEN IF Len(chain) = 1
            THEN [returned |-> self.subcommands[chain[1]], raised |-> "none"]
            ELSE FindSubcommand(nodes, self.subcommands[chain[1]], Tail(chain))
       ELSE [returned |-> 0, raised |-> "SubcommandNotAvailableError"]

\* commands_to_dict's None.
NoneDict == [kind |-> "None"]

\* The commands_to_dict of subcommands.py: the subcommands alone.
RECURSIVE CommandsToDictSubcommandsOnly(_, _)
CommandsToDictSubcommandsOnly(nodes, id) ==
    LET self == nodes[id]
        command_dict == [name \in DOMAIN self.subcommands |->
                            CommandsToDictSubcommandsOnly(nodes, self.subcommands[name])]
    IN IF DOMAIN command_dict # {}
       THEN [kind |-> "dict", items |-> command_dict]
       ELSE NoneDict

\* Command.commands_to_dict.  "command_dict | argument_dict": for a key of
\* both, the right operand's value.
RECURSIVE CommandsToDict(_, _)
CommandsToDict(nodes, id) ==
    LET self == nodes[id]
        command_dict == [name \in DOMAIN self.subcommands |->
                            CommandsToDict(nodes, self.subcommands[name])]
        argument_dict == [argument \in self.options |-> NoneDict]
        merged_dict == argument_dict @@ command_dict
    IN IF DOMAIN merged_dict # {}
       THEN [kind |-> "dict", items |-> merged_dict]
       ELSE NoneDict

\* parse_known_args on command names: the parser of the Command id reads the
\* names from the i-th on.  A parser without subparsers sets the rest aside;
\* one with subparsers takes the name of a child or fails; at the end a
\* required subparsers action that saw no name fails.
RECURSIVE SelectCommand(_, _, _, _)
SelectCommand(nodes, id, argv, i) ==
    LET self == nodes[id]
    IN IF i > Len(argv)
       THEN IF self.subparser = "required"
            THEN [kind |-> "error", id |-> id, handler |-> None]
            ELSE [kind |-> "ok", id |-> id, handler |-> CommandHandler(self.handler)]
       ELSE IF self.subparser = "None"
       THEN SelectCommand(nodes, id, argv, i + 1)
       ELSE IF argv[i] \in DOMAIN self.subcommands
       THEN SelectCommand(nodes, self.subcommands[argv[i]], argv, i + 1)
       ELSE [kind |-> "error", id |-> id, handler |-> None]

\* SubcommandApplication.__init__: root_command, before any registration and
\* before __init_argparse has declared the root options.
InitTree ==
    /\ pc = "tree"
    /\ config \in {c \in ShellConfigs : c.commands = {}}
    /\ tree = [nodes |-> <<Command(RootHandler(config), {})>>, adds |-> 0,
               last |-> [op |-> "none"]]
    /\ args = None
    /\ budget = 0
    /\ shell = NoShell
    /\ resolver = NoResolver
    /\ document = NoDocument
    /\ raised = Exc("none")
    /\ methods = [s \in Stages |-> <<>>]
    /\ idx = 0
    /\ ran = [s \in Stages |-> <<>>]
    /\ late = {}
    /\ logging_config = NoLogging
    /\ application_config = NoApplicationConfig
    /\ ret = [called |-> FALSE, returned |-> FALSE, value |-> None, exc |-> Exc("none")]
    /\ events = <<>>
    /\ status = None

\* root_command.add_subcommand(path, handler=handler)
AddSubcommand ==
    /\ pc = "tree"
    /\ tree.adds < MaxRegistrations
    /\ \E path \in CommandPaths, given \in BOOLEAN, conflict \in Conflicts :
          LET handler == IF given THEN UserHandler(path) ELSE None
              r == AddSubcommandTo(tree.nodes, 1, path, handler, conflict)
          IN tree' = [nodes |-> r.nodes, adds |-> tree.adds + 1,
                      last |-> [op |-> "add", path |-> path, handler |-> handler,
                                returned |-> r.returned, raised |-> r.raised]]
    /\ UNCHANGED <<pc, config, args, raised, methods, idx, ran, late,
                   logging_config, application_config, ret, events, status,
                   budget, resolver, shell,
                   document>>

\* command.parser.add_argument("--start") on the Command that the
\* registration of "count up" has just returned.
AddArgument ==
    /\ pc = "tree"
    /\ tree.last.op = "add"
    /\ tree.last.raised = "none"
    /\ tree.last.path = <<"count", "up">>
    /\ tree' = [tree EXCEPT
                  !.nodes[tree.last.returned].options = @ \cup {"--start"},
                  !.last = [op |-> "add_argument", id |-> tree.last.returned]]
    /\ UNCHANGED <<pc, config, args, raised, methods, idx, ran, late,
                   logging_config, application_config, ret, events, status,
                   budget, resolver, shell,
                   document>>

\* __init_argparse: the add_argument calls on the root parser.
AddRootArguments ==
    /\ pc = "tree"
    /\ tree.nodes[1].options = {}
    /\ tree' = [tree EXCEPT !.nodes[1].options = RootOptions,
                            !.last = [op |-> "add_argument", id |-> 1]]
    /\ UNCHANGED <<pc, config, args, raised, methods, idx, ran, late,
                   logging_config, application_config, ret, events, status,
                   budget, resolver, shell,
                   document>>

\* root_command.find_subcommand(path)
CallFindSubcommand ==
    /\ pc = "tree"
    /\ \E path \in CommandPaths :
          LET r == FindSubcommand(tree.nodes, 1, path)
          IN tree' = [tree EXCEPT
                        !.last = [op |-> "find", path |-> path,
                                  returned |-> r.returned, raised |-> r.raised]]
    /\ UNCHANGED <<pc, config, args, raised, methods, idx, ran, late,
                   logging_config, application_config, ret, events, status,
                   budget, resolver, shell,
                   document>>

\* commands_to_dict() on a Command
CallCommandsToDict ==
    /\ pc = "tree"
    /\ \E id \in 1..Len(tree.nodes) :
          tree' = [tree EXCEPT
                     !.last = [op |-> "dict", id |-> id,
                               dict |-> CommandsToDict(tree.nodes, id)]]
    /\ UNCHANGED <<pc, config, args, raised, methods, idx, ran, late,
                   logging_config, application_config, ret, events, status,
                   budget, resolver, shell,
                   document>>

\* parse_known_args(argv) of the root parser, argv naming commands only
CallParseKnownArgs ==
    /\ pc = "tree"
    /\ \E argv \in {<<>>} \cup CommandPaths :
          LET r == SelectCommand(tree.nodes, 1, argv, 1)
          IN tree' = [tree EXCEPT
                        !.last = [op |-> "parse", argv |-> argv, kind |-> r.kind,
                                  id |-> r.id, handler |-> r.handler]]
    /\ UNCHANGED <<pc, config, args, raised, methods, idx, ran, late,
                   logging_config, application_config, ret, events, status,
                   budget, resolver, shell,
                   document>>

NextTree ==
    \/ AddSubcommand
    \/ AddArgument
    \/ AddRootArguments
    \/ CallFindSubcommand
    \/ CallCommandsToDict
    \/ CallParseKnownArgs

SpecTree == InitTree /\ [][NextTree]_vars

-----------------------------------------------------------------------------
(* A SubcommandApplication with its configuration and its Command objects: *)
(* stage two resolves the application configuration, then stage three,     *)
(* run and the interactive loop follow.                                    *)

\* The Command objects the registrations of c.commands construct: "count"
\* first when both are registered.
BuildTree(c) ==
    LET root == <<Command(RootHandler(c), RootOptions)>>
        first == IF <<"count">> \in c.commands
                 THEN AddSubcommandTo(root, 1, <<"count">>,
                                      UserHandler(<<"count">>), "ArgumentError").nodes
                 ELSE root
        second == IF <<"count", "up">> \in c.commands
                  THEN AddSubcommandTo(first, 1, <<"count", "up">>,
                                       UserHandler(<<"count", "up">>),
                                       "ArgumentError").nodes
                  ELSE first
    IN [nodes |-> second, adds |-> Cardinality(c.commands),
        last |-> [op |-> "none"]]

\* The constructor parameters: default logging, and the application
\* configuration at the constructor's path.
FrameConfigs ==
    [run_method_available : {TRUE},
     add_arguments_method_available : {FALSE},
     logging_init_custom_logging_enabled : {FALSE},
     logging_init_default_logging_enabled : {TRUE},
     logging_config_filepath : {None},
     logging_config_search_paths : {<<"cwd", "home">>},
     logging_config_search_filenames : {<<"logging.yaml">>},
     logging_default_config_filepath : {None},
     application_config_init_enabled : {TRUE},
     application_config_schema_filepath : {None},
     application_config_filepath : {CtorApplicationConfig},
     application_config_search_paths : {<<"cwd", "home">>},
     application_config_search_filenames : {<<"app.json">>},
     shell_enabled : BOOLEAN,
     commands : CommandTrees]

InitFrame ==
    /\ pc = "constructed"
    /\ config \in FrameConfigs
    /\ tree = BuildTree(config)
    /\ budget = 0
    /\ args = None
    /\ raised = Exc("none")
    /\ methods = [s \in Stages |-> <<>>]
    /\ idx = 0
    /\ ran = [s \in Stages |-> <<>>]
    /\ late = {}
    /\ logging_config = NoLogging
    /\ application_config = NoApplicationConfig
    /\ ret = [called |-> FALSE, returned |-> FALSE, value |-> None, exc |-> Exc("none")]
    /\ events = <<>>
    /\ status = None
    /\ resolver = NoResolver
    /\ shell = NoShell
    /\ document = NoDocument

\* _handle_root_command: self.root_command.commands_to_dict(), for the
\* completer of the loop.
LoopCommandsToDict ==
    /\ pc = "prompt"
    /\ tree' = [tree EXCEPT
                  !.last = [op |-> "dict", id |-> 1,
                            dict |-> CommandsToDict(tree.nodes, 1)]]
    /\ UNCHANGED <<pc, config, args, raised, methods, idx, ran, late,
                   logging_config, application_config, ret, events, status,
                   budget, resolver, shell, document>>

\* root_command.find_subcommand(path), called while the loop is active, for
\* a path that may be registered and one that never is.
LoopFindSubcommand ==
    /\ pc = "prompt"
    /\ \E path \in {<<"count", "up">>, <<"up">>} :
          LET r == FindSubcommand(tree.nodes, 1, path)
          IN tree' = [tree EXCEPT
                        !.last = [op |-> "find", path |-> path,
                                  returned |-> r.returned, raised |-> r.raised]]
    /\ UNCHANGED <<pc, config, args, raised, methods, idx, ran, late,
                   logging_config, application_config, ret, events, status,
                   budget, resolver, shell, document>>

NextFrame ==
    \/ NextShell
    \/ LoopFindSubcommand
    \/ LoopCommandsToDict

SpecFrame == InitFrame /\ [][NextFrame]_vars

-----------------------------------------------------------------------------
(* The log level override: __get_log_level, __set_log_level and the        *)
(* document __init_logging gives to dictConfig.  A level is <<number>>, a  *)
(* document holds the declared handlers and loggers with their level names *)
(* and the root section's level, None when no root section is declared.    *)

\* logging.DEBUG
DEBUG == 10

\* logging.getLevelName for the levels of the logging module.
GetLevelName ==
    (0 :> "NOTSET") @@ (10 :> "DEBUG") @@ (20 :> "INFO") @@ (30 :> "WARNING")
       @@ (40 :> "ERROR") @@ (50 :> "CRITICAL")

\* The logging_force_log_level a constructor may give.
ForceLogLevels == {None, <<0>>, <<10>>, <<30>>}

\* Python's truth value of an optional level: None and 0 are false.
Truthy(level) == level # None /\ level[1] # 0

\* A __get_log_level that prefers the constructor's level to the verbose flag.
GetLogLevelForcedFirst(a, c) ==
    IF Truthy(c.logging_force_log_level) THEN c.logging_force_log_level
    ELSE IF a.verbose THEN <<DEBUG>>
    ELSE None

\* __get_log_level
GetLogLevel(a, c) ==
    IF a.verbose THEN <<DEBUG>>
    ELSE IF Truthy(c.logging_force_log_level) THEN c.logging_force_log_level
    ELSE None

\* __set_log_level
SetLogLevel(config_dict, log_level) ==
    LET level_name == GetLevelName[log_level[1]]
    IN [handlers |-> [handler \in DOMAIN config_dict.handlers |-> level_name],
        loggers |-> [logger \in DOMAIN config_dict.loggers |-> level_name],
        root |-> IF config_dict.root # None THEN <<level_name>> ELSE None]

\* __init_logging: the document handed to dictConfig.
DictConfigArgument(d, force_log_level) ==
    IF Truthy(force_log_level) THEN SetLogLevel(d, force_log_level) ELSE d

\* The level names a loaded document declares.
DeclaredLevels == {"INFO", "ERROR"}

\* The documents yaml.safe_load may give.
Documents ==
    [handlers : UNION {[names -> DeclaredLevels] : names \in SUBSET {"console", "file"}},
     loggers : UNION {[names -> DeclaredLevels] : names \in SUBSET {"app"}},
     root : {None} \cup {<<level>> : level \in DeclaredLevels}]

\* Stage one is over: the arguments are parsed; a logging document is about
\* to be loaded.
InitLogLevel ==
    /\ pc = "init_logging"
    /\ config \in [logging_force_log_level : ForceLogLevels]
    /\ args \in [verbose : BOOLEAN, quiet : {FALSE}, config : {None},
                 logging_config : {None}]
    /\ document \in [loaded : Documents, activated : {None}]
    /\ budget = 0
    /\ shell = NoShell
    /\ tree = NoTree
    /\ resolver = NoResolver
    /\ raised = Exc("none")
    /\ methods = [s \in Stages |-> <<>>]
    /\ idx = 0
    /\ ran = [s \in Stages |-> <<>>]
    /\ late = {}
    /\ logging_config = NoLogging
    /\ application_config = NoApplicationConfig
    /\ ret = [called |-> FALSE, returned |-> FALSE, value |-> None, exc |-> Exc("none")]
    /\ events = <<>>
    /\ status = None

\* __init_custom_logging / __init_default_logging: the level is asked for
\* and __init_logging activates the document.
ActivateLogging ==
    /\ pc = "init_logging"
    /\ document' = [document EXCEPT
                      !.activated = DictConfigArgument(document.loaded,
                                                       GetLogLevel(args, config))]
    /\ pc' = "logging_active"
    /\ events' = events \o <<"dictConfig">>
    /\ UNCHANGED <<config, args, raised, methods, idx, ran, late, logging_config,
                   application_config, ret, status, budget, resolver, shell, tree>>

NextLogLevel == ActivateLogging

SpecLogLevel == InitLogLevel /\ [][NextLogLevel]_vars

-----------------------------------------------------------------------------
(* Properties                                                              *)

Positions(e) == {i \in 1..Len(events) : events[i] = e}

Occurs(e) == Positions(e) # {}

\* Every occurrence of b comes after an occurrence of a.
Precedes(a, b) == \A j \in Positions(b) : \E i \in Positions(a) : i < j

Lifecycle == <<"STAGE_ONE", "STAGE_TWO", "STAGE_THREE", "RUNNING", "TERMINATED">>

HelpOrVersion == raised.type \in {"HelpRequested", "VersionRequested"}

NoHookRan == \A s \in Stages : ran[s] = <<>>

\* C1: in every run of start() the lifecycle moves forward only: each of
\* STAGE_ONE, STAGE_TWO, STAGE_THREE, RUNNING, TERMINATED is entered at most
\* once and in this order, STAGE_TWO, STAGE_THREE and RUNNING are entered only
\* after the stage before them has returned, run is invoked only after all
\* three stages have returned, and nothing follows TERMINATED.
C1_LifecycleForward ==
    /\ \A k \in 1..Len(Lifecycle) : Cardinality(Positions(Lifecycle[k])) <= 1
    /\ \A k, l \in 1..Len(Lifecycle) :
          k < l => \A i \in Positions(Lifecycle[k]), j \in Positions(Lifecycle[l]) : i < j
    /\ Precedes("end1", "STAGE_TWO")
    /\ Precedes("end2", "STAGE_THREE")
    /\ Precedes("end3", "RUNNING")
    /\ \A s \in Stages : Precedes(Lifecycle[s], CoreDone(s))
                         /\ Precedes(CoreDone(s), StageDone(s))
    /\ \A e \in {"end1", "end2", "end3", "RUNNING"} : Precedes(e, "run")
    /\ ret.called => Occurs("run")
    /\ \A i \in Positions("TERMINATED") : i = Len(events)
    /\ pc = "done" <=> Occurs("TERMINATED")

\* C1 witness: a run that went through all five stages and returned from run.
C1_Witness ==
    /\ pc = "done"
    /\ ret.returned
    /\ \A k \in 1..Len(Lifecycle) : Occurs(Lifecycle[k])

\* C2: for each stage, the hooks invoked so far are the first hooks of the
\* stage's list, in the order of their registration and each once; a hook
\* runs only after the stage's core work and before the stage has returned;
\* a hook registered after its stage's loop had ended is never invoked.
C2_HooksInRegistrationOrder ==
    \A s \in Stages :
        /\ Len(ran[s]) <= Len(methods[s])
        /\ \A i \in 1..Len(ran[s]) : ran[s][i] = methods[s][i]
        /\ \A i, j \in 1..Len(ran[s]) : i # j => ran[s][i] # ran[s][j]
        /\ Cardinality(Positions(HookRan(s))) = Len(ran[s])
        /\ \A j \in Positions(HookRan(s)) :
              /\ \E i \in Positions(CoreDone(s)) : i < j
              /\ \A i \in Positions(StageDone(s)) : j < i
        /\ \A h \in late : h[1] = s => \A i \in 1..Len(ran[s]) : ran[s][i] # h[2]

\* C2 witness: two hooks of one stage ran in order, and one of them
\* registered a hook for a stage that had already returned.
C2_Witness ==
    /\ pc = "done"
    /\ \E s \in Stages : ran[s] = <<1, 2>>
    /\ late # {}

\* C3: when parsing meets a help or version request, start() returns 0 and
\* neither run, nor a hook, nor any stage-two or stage-three work happens.
\* The request is the one parse_known_args acts on: a --help or --version
\* token the parser never reaches, because add_arguments raised or an earlier
\* token was in error, is no request but a stage-one failure.
C3_HelpVersionReturnsZero ==
    HelpOrVersion =>
        /\ pc = "done"
        /\ status = <<0>>
        /\ ~ret.called
        /\ NoHookRan
        /\ ~Occurs("STAGE_TWO") /\ ~Occurs("STAGE_THREE") /\ ~Occurs("RUNNING")
        /\ ~Occurs("dictConfig")
        /\ logging_config = NoLogging
        /\ application_config = NoApplicationConfig

\* C3 witness: a version request with a stage-one hook registered and a run
\* method defined.
C3_Witness ==
    /\ raised.type = "VersionRequested"
    /\ status = <<0>>
    /\ methods[1] # <<>>
    /\ config.run_method_available

\* C4: when run returns, start() returns run's value, and 0 when run returned
\* no value.
C4_StatusIsRunValue ==
    ret.returned =>
        /\ pc = "done"
        /\ Occurs("end3")
        /\ status = <<IF ret.value = None THEN 0 ELSE ret.value[1]>>

\* C4 witness: run returned 3 and so did start().
C4_Witness == ret.returned /\ ret.value = <<3>> /\ status = <<3>>

\* C5: with verbose and quiet both set, start() returns a non-zero status in
\* stage one: no hook, no stage two, no stage three and no run.
C5_VerboseQuietRejected ==
    (args # None /\ args.verbose /\ args.quiet) =>
        /\ pc = "done"
        /\ status # None /\ status[1] # 0
        /\ raised.type = "ArgumentError"
        /\ ~ret.called
        /\ NoHookRan
        /\ ~Occurs("core1") /\ ~Occurs("STAGE_TWO") /\ ~Occurs("STAGE_THREE")
        /\ logging_config.type # "CUSTOM"
        /\ application_config = NoApplicationConfig

\* C5 witness: both flags parsed, with a stage-one hook registered.
C5_Witness ==
    /\ args # None /\ args.verbose /\ args.quiet
    /\ pc = "done"
    /\ methods[1] # <<>>

\* C6: a run that ends in the core of stage one returns 0 only for a help or
\* version request.
C6_StageOneFailureNonZero ==
    (pc = "done" /\ ~Occurs("core1") /\ status = <<0>>) => HelpOrVersion

\* C7: when the try block of __init_argparse raised an exception of the hook,
\* a parser error or the verbose/quiet conflict, the default logging
\* configuration is activated, and before any error is logged.
C7_DefaultLoggingBeforeError ==
    (pc = "done" /\ raised.type \in {"Exception", "KeyboardInterrupt", "ArgumentError"}) =>
        /\ Occurs("dictConfig")
        /\ Precedes("dictConfig", "error")
        /\ logging_config.type = "DEFAULT"

\* C8: with application-config resolution enabled and no file resolved (no
\* CLI path, no constructor path, no existing search combination), start()
\* returns a non-zero status and neither run nor a stage-two or stage-three
\* hook is invoked.
C8_NoApplicationConfigIsFatal ==
    (/\ config.application_config_init_enabled
     /\ application_config.source = "SEARCH"
     /\ application_config.filepath = None) =>
        /\ pc = "done"
        /\ status # None /\ status[1] # 0
        /\ ~ret.called
        /\ ran[2] = <<>> /\ ran[3] = <<>>
        /\ ~Occurs("STAGE_THREE")

\* C8 witness: the search found nothing, with a stage-two hook registered.
C8_Witness ==
    /\ config.application_config_init_enabled
    /\ application_config.source = "SEARCH"
    /\ application_config.filepath = None
    /\ methods[2] # <<>>
    /\ config.run_method_available

Resolved == pc = "resolved"

\* The CLI path and the constructor path the resolver was given.
CliPath == IF resolver.kind = "application" THEN args.config ELSE args.logging_config

CtorPath ==
    IF resolver.kind = "application" THEN config.application_config_filepath
    ELSE config.logging_config_filepath

\* The first of CLI path, constructor path and search combinations that exists.
FirstExisting ==
    IF CliPath # None /\ CliPath \in resolver.files THEN CliPath
    ELSE IF CtorPath # None /\ CtorPath \in resolver.files THEN CtorPath
    ELSE FindFile(SearchPaths, SearchFilenames, resolver.files)

\* C9: both resolvers choose the CLI path whenever one is given, else the
\* constructor path whenever one is given, else the search result, whatever
\* files exist, and record the tier that produced the path.
C9_ResolutionPrecedence ==
    Resolved =>
        /\ CliPath # None =>
              resolver.path = CliPath /\ resolver.source = "CLI_ARG"
        /\ (CliPath = None /\ CtorPath # None) =>
              resolver.path = CtorPath /\ resolver.source = "EXPLICIT"
        /\ (CliPath = None /\ CtorPath = None) =>
              /\ resolver.source = "SEARCH"
              /\ resolver.path \in
                    {None} \cup Combinations(SearchPaths, SearchFilenames)

\* C9 witness: the CLI path was chosen although it does not exist and both a
\* constructor path and a search combination do.
C9_Witness ==
    /\ Resolved
    /\ CliPath # None /\ CliPath \notin resolver.files
    /\ CtorPath # None /\ CtorPath \in resolver.files
    /\ <<SearchPaths[1], SearchFilenames[1]>> \in resolver.files
    /\ resolver.path = CliPath

\* C10 as stated: the returned path is the first existing candidate in the
\* order CLI path, constructor path, search combinations.
C10_FirstExistingCandidate == Resolved => resolver.path = FirstExisting

\* C10 as amended: a path found by search exists and is the first existing
\* combination; a CLI path or constructor path is returned whether or not it
\* exists and is never passed over.
C10_OnlySearchedPathExists ==
    Resolved =>
        /\ (resolver.source = "SEARCH" /\ resolver.path # None) =>
              /\ resolver.path \in resolver.files
              /\ \A i \in 1..Len(SearchPaths), j \in 1..Len(SearchFilenames) :
                    <<SearchPaths[i], SearchFilenames[j]>> \in resolver.files =>
                        \E k \in 1..i, l \in 1..Len(SearchFilenames) :
                            /\ resolver.path = <<SearchPaths[k], SearchFilenames[l]>>
                            /\ (k = i => l <= j)
        /\ (resolver.source = "SEARCH" /\ resolver.path = None) =>
              Combinations(SearchPaths, SearchFilenames) \cap resolver.files = {}
        /\ resolver.source # "SEARCH" =>
              resolver.path = (IF CliPath # None THEN CliPath ELSE CtorPath)

\* C10 witness: the search returned an existing file that is not the first
\* combination.
C10_Witness ==
    /\ Resolved
    /\ resolver.source = "SEARCH"
    /\ resolver.path \in resolver.files
    /\ resolver.path # <<SearchPaths[1], SearchFilenames[1]>>

\* The search combinations that exist, as pairs of indices <<i, j>> of
\* SearchPaths and SearchFilenames.
ExistingCombinations ==
    {ij \in (1..Len(SearchPaths)) \X (1..Len(SearchFilenames)) :
        <<SearchPaths[ij[1]], SearchFilenames[ij[2]]>> \in resolver.files}

\* C11: find_file returns the existing D_i/F_j with the smallest i and, for
\* that i, the smallest j (directories outer, filenames inner, first match),
\* and it returns no path exactly when no combination exists.
C11_FindFileOrder ==
    (Resolved /\ resolver.source = "SEARCH") =>
        /\ resolver.path = None <=> ExistingCombinations = {}
        /\ resolver.path # None =>
              \E ij \in ExistingCombinations :
                 /\ resolver.path = <<SearchPaths[ij[1]], SearchFilenames[ij[2]]>>
                 /\ \A kl \in ExistingCombinations :
                       \/ ij[1] < kl[1]
                       \/ ij[1] = kl[1] /\ ij[2] <= kl[2]

\* C11 witness: with files at D1/F2 and D2/F1 only, the search returned D1/F2.
C11_Witness ==
    /\ Resolved
    /\ resolver.source = "SEARCH"
    /\ ExistingCombinations = {<<1, 2>>, <<2, 1>>}
    /\ resolver.path = <<"D1", "F2">>

\* The bootstrap has gone past the logging step of stage two.
PastLoggingStep ==
    \/ pc = "init_application_config"
    \/ application_config.source # "None"
    \/ Occurs("core2")

\* C12: when __init_logging raised for the resolved custom logging
\* configuration, the default configuration is active and the bootstrap goes
\* on to the application configuration: the failure does not end start().
C12_CustomLoggingFailureRecoverable ==
    Occurs("custom_logging_failed") =>
        /\ logging_config.type = "DEFAULT"
        /\ PastLoggingStep

C14_ApplicationConfigExposedAfterValidation ==
    /\ application_config.config # None =>
          /\ Occurs("json.load")
          /\ config.application_config_schema_filepath # None => Occurs("validate")
          /\ ~Occurs("application_config_failed")
    /\ Occurs("application_config_failed") =>
          /\ application_config.config = None
          /\ pc = "done"
          /\ status # None /\ status[1] # 0
          /\ ~ret.called
          /\ ~Occurs("core2") /\ ~Occurs("RUNNING")

\* C14 witness: with a schema configured the file was parsed and validated,
\* the configuration is exposed and run was reached.
C14_Witness ==
    /\ config.application_config_schema_filepath # None
    /\ application_config.config # None
    /\ Occurs("validate")
    /\ ret.returned

\* C15: when run raises, start() returns: 0 for a KeyboardInterrupt, -1 for
\* any exception that is neither an interrupt nor a SystemExit; the exception
\* does not leave start().
C15_RunFailureStatus ==
    (ret.called /\ ~ret.returned) =>
        /\ pc = "done"
        /\ status # None
        /\ events[Len(events)] = "TERMINATED"
        /\ ret.exc.type = "KeyboardInterrupt" => status = <<0>>
        /\ ret.exc.type = "Exception" => status = <<-1>> /\ Occurs("error")

\* C15 witness: run was interrupted and start() returned 0.
C15_Witness ==
    /\ ret.called
    /\ ret.exc.type = "KeyboardInterrupt"
    /\ status = <<0>>

\* The status an exit request with this code asks for.
ExitStatus(code) == IF code = None THEN 0 ELSE code[1]

\* C16: when add_arguments, the parser or run raised SystemExit with status
\* s, start() returns s, and 0 for a SystemExit without status.
C16_ExitCarriesItsStatus ==
    pc = "done" =>
        /\ ret.exc.type = "SystemExit" => status = <<ExitStatus(ret.exc.code)>>
        /\ raised.type = "SystemExit" => status = <<ExitStatus(raised.code)>>


\* C17: in the interactive loop no outcome of a non-empty input line (parser
\* error, unknown subcommand, help or version request, SystemExit of the
\* parser or of the handler, handler exception, KeyboardInterrupt in the
\* handler) ends the loop or start(): after the line a prompt follows and
\* start() has not returned; start() returns from the loop only after
\* end-of-input or an interrupt at the prompt.
C17_LineNeverEndsLoop ==
    /\ shell.last.input = "line" =>
          /\ pc = "prompt"
          /\ shell.depth >= 1
          /\ status = None
          /\ ~Occurs("TERMINATED")
    /\ (pc = "done" /\ Occurs("loop")) =>
          /\ shell.last.input \in {"EOF", "KeyboardInterrupt"}
          /\ shell.depth = 0

C17_Witness ==
    /\ shell.last.input = "line"
    /\ shell.last.raised = "SystemExit"
    /\ shell.last.did = "error"
    /\ pc = "prompt"

\* C18: a line naming an unregistered command makes the interactive loop
\* print the "Command unavailable" notice and prompt again.
C18_UnregisteredPrintsUnavailable ==
    shell.last.unregistered =>
        (shell.last.did = "unavailable" /\ pc = "prompt")

\* C19: the interactive loop is entered only with shell mode enabled and argv
\* selecting no subcommand; once argv has selected a registered subcommand,
\* run invokes its handler exactly once and never the loop; with shell mode
\* disabled the loop is never entered.
C19_LoopOnlyWithoutSubcommand ==
    LET handlerRuns == Cardinality(Positions("handler"))
        subcommand == shell.selected \notin {None, ShellHandler, DefaultHandler}
    IN /\ (Occurs("loop") \/ shell.depth > 0) =>
             (config.shell_enabled /\ shell.selected = ShellHandler)
       /\ subcommand =>
             /\ ~Occurs("loop")
             /\ handlerRuns = (IF ret.called THEN 1 ELSE 0)
             /\ pc = "done" => handlerRuns = 1
       /\ ~subcommand => handlerRuns = 0
       /\ ~config.shell_enabled => (~Occurs("loop") /\ pc # "prompt")

C19_Witness ==
    /\ config.shell_enabled
    /\ shell.selected = UserHandler(<<"count", "up">>)
    /\ pc = "done"
    /\ Cardinality(Positions("handler")) = 1

\* C20: end-of-input or an interrupt at the prompt makes the loop return 0,
\* which is the status of start() when the loop is the one run entered; an
\* empty line reaches neither the parser nor a handler and the next prompt
\* follows.
C20_EndOfInputAndEmptyLine ==
    /\ shell.last.input \in {"EOF", "KeyboardInterrupt"} =>
          /\ shell.last.did = "return"
          /\ shell.depth = 0 =>
                (pc = "done" /\ ret.value = <<0>> /\ status = <<0>>)
          /\ shell.depth > 0 => pc = "prompt"
    /\ shell.last.input = "empty" =>
          /\ ~shell.last.parsed
          /\ shell.last.invoked = None
          /\ shell.last.raised = "none"
          /\ pc = "prompt"
          /\ status = None

C20_Witness ==
    /\ shell.last.input = "EOF"
    /\ shell.last.prev = "empty"
    /\ pc = "done"
    /\ status = <<0>>


\* ids names, hop by hop, the children that the tokens of path select from
\* the root on.
Walk(nodes, path, ids) ==
    \A k \in 1..Len(path) :
        LET parent == IF k = 1 THEN 1 ELSE ids[k - 1]
        IN /\ path[k] \in DOMAIN nodes[parent].subcommands
           /\ nodes[parent].subcommands[path[k]] = ids[k]

Walkable(nodes, path) ==
    \E ids \in [1..Len(path) -> 1..Len(nodes)] : Walk(nodes, path, ids)

\* C21: right after add_subcommand(P, handler) has returned a node,
\* find_subcommand(P) returns that very node; and find_subcommand on a path
\* with a token that is no child at its position (at any hop) raises
\* SubcommandNotAvailableError, while a path of children all the way gives
\* the node at its end.
C21_FindReturnsRegistered ==
    /\ (tree.last.op = "add" /\ tree.last.raised = "none") =>
          FindSubcommand(tree.nodes, 1, tree.last.path)
             = [returned |-> tree.last.returned, raised |-> "none"]
    /\ pc = "tree" =>
          \A path \in CommandPaths :
              ~Walkable(tree.nodes, path) =>
                  FindSubcommand(tree.nodes, 1, path).raised
                     = "SubcommandNotAvailableError"
    /\ tree.last.op = "find" =>
          /\ (tree.last.raised = "none") <=> Walkable(tree.nodes, tree.last.path)
          /\ tree.last.raised \in {"none", "SubcommandNotAvailableError"}
          /\ tree.last.raised = "none" =>
                \E ids \in [1..Len(tree.last.path) -> 1..Len(tree.nodes)] :
                    /\ Walk(tree.nodes, tree.last.path, ids)
                    /\ ids[Len(tree.last.path)] = tree.last.returned

C21_Witness ==
    /\ tree.last.op = "find"
    /\ tree.last.path = <<"count", "up">>
    /\ tree.last.raised = "none"
    /\ tree.nodes[tree.last.returned].handler = UserHandler(<<"count", "up">>)

\* C22: no add_subcommand call takes a node away: a path that
\* find_subcommand resolved before the call resolves to the same node after
\* it, with all the children it had; and registering, with a handler, a path
\* that is already a node returns that node, now holding the handler.
C22_TreeOnlyGrows ==
    [][\A path \in CommandPaths :
          LET before == FindSubcommand(tree.nodes, 1, path)
              after == FindSubcommand(tree'.nodes, 1, path)
          IN (pc = "tree" /\ before.raised = "none") =>
                /\ after = before
                /\ \A name \in DOMAIN tree.nodes[before.returned].subcommands :
                      /\ name \in DOMAIN tree'.nodes[before.returned].subcommands
                      /\ tree'.nodes[before.returned].subcommands[name]
                            = tree.nodes[before.returned].subcommands[name]
                /\ (/\ tree'.adds = tree.adds + 1
                    /\ tree'.last.path = path
                    /\ tree'.last.handler # None) =>
                      /\ tree'.last.raised = "none"
                      /\ tree'.last.returned = before.returned
                      /\ tree'.nodes[before.returned].handler = tree'.last.handler
      ]_vars

\* C23: a node with a handler is selected by the arguments that name it, no
\* child needed; a node that never received a handler is never what
\* parse_known_args selects, whether it has children or not, so that
\* default_handler is never dispatched.
C23_HandlerDecidesSelection ==
    /\ pc = "tree" =>
          \A argv \in {<<>>} \cup CommandPaths :
              LET id == IF argv = <<>> THEN 1
                        ELSE FindSubcommand(tree.nodes, 1, argv).returned
                  selected == SelectCommand(tree.nodes, 1, argv, 1)
              IN id # 0 =>
                    IF tree.nodes[id].handler # None
                    THEN selected.kind = "ok" /\ selected.id = id
                    ELSE selected.kind = "error"
    /\ tree.last.op = "parse" =>
          /\ tree.last.handler # DefaultHandler
          /\ tree.last.kind = "ok" => tree.nodes[tree.last.id].handler # None

ActivationCalls ==
    Cardinality(Positions("dictConfig")) + Cardinality(Positions("dictConfig_raised"))

ApplicationConfigFatal ==
    /\ pc = "done"
    /\ application_config.source # "None"
    /\ ~Occurs("core2")

\* C26: when the bootstrap ends through an argument error or through a fatal
\* application-config condition, a logging configuration was activated, and
\* before the first error line, whatever the two logging toggles are.
C26_FatalAfterLoggingActive ==
    (pc = "done" /\ (raised.type = "ArgumentError" \/ ApplicationConfigFatal)) =>
        /\ Occurs("dictConfig")
        /\ Precedes("dictConfig", "error")


\* The override the claim describes: DEBUG with the verbose flag, else the
\* level the constructor was given, else none.
ConfiguredOverride ==
    IF args.verbose THEN <<DEBUG>> ELSE config.logging_force_log_level

\* The activated document declares what the loaded one declares, and with
\* an override every declared level is the override's name, without one the
\* document is unchanged.
ActivatedWith(override) ==
    /\ DOMAIN document.activated.handlers = DOMAIN document.loaded.handlers
    /\ DOMAIN document.activated.loggers = DOMAIN document.loaded.loggers
    /\ (document.activated.root = None) <=> (document.loaded.root = None)
    /\ IF override # None
       THEN LET name == GetLevelName[override[1]]
            IN /\ \A handler \in DOMAIN document.activated.handlers :
                     document.activated.handlers[handler] = name
               /\ \A logger \in DOMAIN document.activated.loggers :
                     document.activated.loggers[logger] = name
               /\ document.activated.root # None =>
                     document.activated.root = <<name>>
       ELSE document.activated = document.loaded

\* C27 as stated: the override is DEBUG with the verbose flag, else the level
\* the constructor configured, whichever it is, else none; with an override
\* every declared handler, every declared logger and the declared root
\* section of the activated document carry its level name, without one the
\* activated document is the loaded one.
C27_LogLevelOverride ==
    pc = "logging_active" => ActivatedWith(ConfiguredOverride)

\* C27: as above, with a configured level of 0 (NOTSET) counting as no
\* configured level.
C27_LogLevelOverrideUnlessNotSet ==
    pc = "logging_active" =>
        ActivatedWith(IF ~args.verbose /\ config.logging_force_log_level = <<0>>
                      THEN None ELSE ConfiguredOverride)

\* C27 witness: verbose wins over a configured WARNING.
C27_Witness ==
    /\ pc = "logging_active"
    /\ args.verbose
    /\ config.logging_force_log_level = <<30>>
    /\ document.loaded.root = <<"ERROR">>
    /\ document.activated.root = <<"DEBUG">>
    /\ DOMAIN document.activated.handlers = {"console", "file"}
    /\ DOMAIN document.activated.loggers = {"app"}


\* C28: once stage two has returned, no step of the framework (stage three,
\* run's dispatch, find_subcommand, commands_to_dict, an iteration of the
\* interactive loop) changes the Command objects, the registered commands,
\* the application configuration or the resolved paths and their sources.
C28_ReadOnlyAfterStageTwo ==
    [][Occurs(StageDone(2)) =>
          /\ tree'.nodes = tree.nodes
          /\ config' = config
          /\ application_config' = application_config
          /\ logging_config' = logging_config
      ]_vars

C28_Witness ==
    /\ pc = "prompt"
    /\ shell.last.input = "line"
    /\ shell.last.invoked = UserHandler(<<"count", "up">>)
    /\ tree.last.op = "dict"
    /\ Len(tree.nodes) = 3
    /\ application_config.config = <<"loaded">>
    /\ application_config.source = "EXPLICIT"
    /\ logging_config.type = "DEFAULT"


\* C29: at most one interactive loop is active: no line entered at the
\* prompt, a line of top-level flags included, dispatches the root command's
\* handler again and starts a loop inside the loop.
C29_AtMostOneLoop ==
    /\ shell.depth <= 1
    /\ shell.last.input = "line" => shell.last.invoked # ShellHandler

\* The statuses start() can return in the model: -1, 0, and the integers that
\* run returns or that application code gives to sys.exit.
Statuses == {<<-1>>, <<0>>, <<3>>}

\* C30: start(), once called, returns, whatever add_arguments, the parser,
\* the logging activation, the configuration resolution, a stage hook or run
\* raised; what it returns is an integer status, and no exception leaves it.
C30_StartAlwaysReturnsStatus ==
    /\ [](pc = "done" => status \in Statuses)
    /\ [](pc # "done" => status = None)
    /\ (pc # "constructed") ~> (pc = "done")

C30_Witness ==
    /\ pc = "done"
    /\ ret.called
    /\ ret.exc = SysExit(None)
    /\ status = <<-1>>
    /\ ran[3] # <<>>

\* The hooks of stage s that were registered before the stage's loop ended.
InTime(s) == Len(methods[s]) - Cardinality({h \in late : h[1] = s})

\* C31: when the application defines no run method and start() gets through
\* its three stages, each stage has done its core work, then run every hook
\* registered for it in time, in registration order, and returned before the
\* next stage began; start() then logs an error and returns -1.  The run
\* entry point is never invoked, whatever the stages did.
C31_NoRunReturnsError ==
    ~config.run_method_available =>
        /\ ~ret.called
        /\ ~Occurs("run")
        /\ (pc = "done" /\ Occurs("RUNNING")) =>
              /\ status = <<-1>>
              /\ \A s \in Stages :
                    /\ Cardinality(Positions(CoreDone(s))) = 1
                    /\ Cardinality(Positions(StageDone(s))) = 1
                    /\ Precedes(CoreDone(s), StageDone(s))
                    /\ ran[s] = SubSeq(methods[s], 1, InTime(s))
                    /\ \A j \in Positions(HookRan(s)) :
                          /\ \E i \in Positions(CoreDone(s)) : i < j
                          /\ \A i \in Positions(StageDone(s)) : j < i
              /\ Precedes(StageDone(1), CoreDone(2))
              /\ Precedes(StageDone(2), CoreDone(3))
              /\ SubSeq(events, Len(events) - 3, Len(events))
                    = <<"end3", "RUNNING", "error", "TERMINATED">>

\* C31 witness: no run method, a hook ran in a stage, and start() returned -1
\* after stage three.
C31_Witness ==
    /\ ~config.run_method_available
    /\ pc = "done"
    /\ Occurs("end3")
    /\ \E s \in Stages : ran[s] # <<>>
    /\ status = <<-1>>

\* The constructor parameters, with the default-logging toggle set to b.
WithDefaultLogging(b) == [config EXCEPT !.logging_init_default_logging_enabled = b]

C32_WitnessBothDisabled ==
    /\ ~config.logging_init_custom_logging_enabled
    /\ ~config.logging_init_default_logging_enabled
    /\ Occurs("end2")
    /\ ActivationCalls = 0

=============================================================================
